---------------------------- MODULE Spec2Model ----------------------------
(***************************************************************************)
(* Model of the partition-provisioning engine of archaid                   *)
(* (src/installerworker.cpp): the device helpers, the detach routines and  *)
(* InstallerWorker::run with its three strategies.                         *)
(*                                                                         *)
(* Text that the code parses or builds character by character (device      *)
(* paths, kernel names, MiB tokens) is a sequence of one-character         *)
(* strings.  Text that the code only passes on (messages, command names)   *)
(* is a TLA+ string.  A double holding a MiB value is an integer number of *)
(* hundredths of a MiB (parted and the wizard print two decimals).         *)
(***************************************************************************)
EXTENDS Integers, Sequences, FiniteSets, TLC

VARIABLES
    fnCall,          \* helper under test and its arguments (SpecFn)
    fnRet,           \* what the helper returned (SpecFn)
    selectedDrive,   \* InstallerWorker::selectedDrive
    mode,            \* InstallerWorker::mode
    targetPartition, \* InstallerWorker::targetPartition
    efiInstall,      \* InstallerWorker::efiInstall
    pc,              \* position of run() in its code
    loc,             \* local variables of run() and of the strategy it runs
    cmds,            \* external commands issued so far, in order
    signals,         \* errorOccurred / installComplete emitted so far
    table,           \* partition table of each disk (what parted edits)
    kview,           \* partitions of each disk the kernel lists (lsblk)
    sys,             \* what backs "/" and what findmnt, /proc/mounts, lsblk answer
    stateFile,       \* content of /tmp/archaid-target.json, or NoFile
    wiz              \* Installwizard: its members and the worker threads it started

vars == <<fnCall, fnRet, selectedDrive, mode, targetPartition, efiInstall,
          pc, loc, cmds, signals, table, kview, sys, stateFile, wiz>>

runVars == <<selectedDrive, mode, targetPartition, efiInstall,
             pc, loc, cmds, signals, table, kview, sys, stateFile, wiz>>

-----------------------------------------------------------------------------
(* Characters and strings *)

EmptyStr == <<>>

\* the wizard before any button was clicked, no worker thread started
NoItem == [type |-> "none"]

NoWizard == [selectedDrive |-> EmptyStr, targetPartition |-> EmptyStr,
             efiInstall |-> FALSE, item |-> NoItem, workers |-> <<>>,
             dialog |-> "none"]

Digits == {"0", "1", "2", "3", "4", "5", "6", "7", "8", "9"}

DigitSeq == <<"0", "1", "2", "3", "4", "5", "6", "7", "8", "9">>

isDigit(c) == c \in Digits

DigitVal(c) == CHOOSE d \in 0..9 : DigitSeq[d + 1] = c

RECURSIVE NatToStr(_)
NatToStr(n) ==
    IF n < 10 THEN <<DigitSeq[n + 1]>>
    ELSE NatToStr(n \div 10) \o <<DigitSeq[(n % 10) + 1]>>

\* QString::number(int)
number(n) == IF n < 0 THEN <<"-">> \o NatToStr(-n) ELSE NatToStr(n)

RECURSIVE StrToNat(_)
StrToNat(s) ==
    IF s = EmptyStr THEN 0
    ELSE 10 * StrToNat(SubSeq(s, 1, Len(s) - 1)) + DigitVal(s[Len(s)])

AllDigits(s) == \A i \in 1..Len(s) : isDigit(s[i])

startsWith(s, p) == Len(s) >= Len(p) /\ SubSeq(s, 1, Len(p)) = p

mid(s, n) == SubSeq(s, n + 1, Len(s))

DevPrefix == <<"/", "d", "e", "v", "/">>

Dev(name) == DevPrefix \o name

toLowerChar(c) ==
    CASE c = "M" -> "m" [] c = "I" -> "i" [] c = "B" -> "b" [] OTHER -> c

-----------------------------------------------------------------------------
(* partitionNodeFor and partitionNumberFromPath *)

partitionNodeFor_NoSeparator(baseName, partNum) ==
    Dev(baseName) \o number(partNum)

partitionNodeFor(baseName, partNum) ==
    IF baseName # EmptyStr /\ isDigit(baseName[Len(baseName)])
    THEN Dev(baseName) \o <<"p">> \o number(partNum)
    ELSE Dev(baseName) \o number(partNum)

\* QString::section('/', -1): the text after the last '/'
LastComponent(partPath) ==
    LET slashes == {i \in 1..Len(partPath) : partPath[i] = "/"}
        last == IF slashes = {} THEN 0
                ELSE CHOOSE i \in slashes : \A j \in slashes : j <= i
    IN SubSeq(partPath, last + 1, Len(partPath))

\* the while loop of partitionNumberFromPath; i counts characters, so the
\* code's index is i - 1
RECURSIVE SkipTrailingDigits(_, _)
SkipTrailingDigits(name, i) ==
    IF i >= 1 /\ isDigit(name[i]) THEN SkipTrailingDigits(name, i - 1) ELSE i

partitionNumberFromPath_OneDigit(partPath) ==
    LET name == LastComponent(partPath)
    IN IF name # EmptyStr /\ isDigit(name[Len(name)])
       THEN <<name[Len(name)]>> ELSE EmptyStr

partitionNumberFromPath(partPath) ==
    LET name == LastComponent(partPath)
        i == SkipTrailingDigits(name, Len(name))
    IN IF i = Len(name) THEN EmptyStr ELSE SubSeq(name, i + 1, Len(name))

-----------------------------------------------------------------------------
(* parseMiBToBounds *)

\* two decimals: the wizard formats extents with arg(x, 0, 'f', 2)
FracDigits == 2

Scale == 10 ^ FracDigits

\* std::ceil, std::floor and the miB lambda's static_cast<qulonglong>(v + 0.5)
\* on a value held in hundredths
ceil(h) == -((-h) \div Scale)

floor(h) == h \div Scale

\* QString::remove("MiB", Qt::CaseInsensitive)
RECURSIVE removeMiB(_)
removeMiB(s) ==
    IF Len(s) < 3 THEN s
    ELSE IF <<toLowerChar(s[1]), toLowerChar(s[2]), toLowerChar(s[3])>>
                = <<"m", "i", "b">>
         THEN removeMiB(mid(s, 3))
         ELSE <<s[1]>> \o removeMiB(mid(s, 1))

replaceComma(s) == [i \in 1..Len(s) |-> IF s[i] = "," THEN "." ELSE s[i]]

RECURSIVE trimmed(_)
trimmed(s) ==
    IF s = EmptyStr THEN s
    ELSE IF s[1] = " " THEN trimmed(mid(s, 1))
    ELSE IF s[Len(s)] = " " THEN trimmed(SubSeq(s, 1, Len(s) - 1))
    ELSE s

\* the norm lambda of parseMiBToBounds
norm(s) == trimmed(replaceComma(removeMiB(s)))

\* the first FracDigits digits after the point, as hundredths
FracValue(fp) ==
    IF fp = EmptyStr THEN 0
    ELSE IF Len(fp) = 1 THEN 10 * DigitVal(fp[1])
    ELSE 10 * DigitVal(fp[1]) + DigitVal(fp[2])

\* QString::toDouble(&ok): [sign] digits [. digits], at least one digit
toDouble(t) ==
    LET signed == t # EmptyStr /\ t[1] \in {"-", "+"}
        body == IF signed THEN mid(t, 1) ELSE t
        dots == {i \in 1..Len(body) : body[i] = "."}
        d == IF dots = {} THEN Len(body) + 1 ELSE CHOOSE i \in dots : TRUE
        ip == SubSeq(body, 1, d - 1)
        fp == SubSeq(body, d + 1, Len(body))
        ok == /\ Cardinality(dots) <= 1
              /\ AllDigits(ip) /\ AllDigits(fp)
              /\ Len(ip) + Len(fp) >= 1
        mag == IF ok THEN Scale * StrToNat(ip) + FracValue(fp) ELSE 0
    IN [ok |-> ok, val |-> IF signed /\ t[1] = "-" THEN -mag ELSE mag]

parseMiBToBounds_NoClamp(startStrIn, endStrIn, startMiB, endMiB) ==
    LET s == toDouble(norm(startStrIn))
        e == toDouble(norm(endStrIn))
    IN IF ~s.ok \/ ~e.ok
       THEN [ok |-> FALSE, startMiB |-> startMiB, endMiB |-> endMiB]
       ELSE [ok |-> ceil(s.val) < floor(e.val),
             startMiB |-> ceil(s.val), endMiB |-> floor(e.val)]

\* a variant that accepts a range whose rounded bounds are equal
parseMiBToBounds_NonStrict(startStrIn, endStrIn, startMiB, endMiB) ==
    LET s == toDouble(norm(startStrIn))
        e == toDouble(norm(endStrIn))
        st == IF ceil(s.val) < 1 THEN 1 ELSE ceil(s.val)
        en == floor(e.val)
    IN IF ~s.ok \/ ~e.ok
       THEN [ok |-> FALSE, startMiB |-> startMiB, endMiB |-> endMiB]
       ELSE [ok |-> st <= en, startMiB |-> st, endMiB |-> en]

\* startMiB and endMiB are the reference parameters: their values on entry
\* are kept when parsing fails
parseMiBToBounds(startStrIn, endStrIn, startMiB, endMiB) ==
    LET s == toDouble(norm(startStrIn))
        e == toDouble(norm(endStrIn))
        st == IF ceil(s.val) < 1 THEN 1 ELSE ceil(s.val)
        en == floor(e.val)
    IN IF ~s.ok \/ ~e.ok
       THEN [ok |-> FALSE, startMiB |-> startMiB, endMiB |-> endMiB]
       ELSE [ok |-> st < en, startMiB |-> st, endMiB |-> en]

-----------------------------------------------------------------------------
(* Block devices as lsblk, findmnt and blkid report them *)

sda == <<"s", "d", "a">>

nvme0n1 == <<"n", "v", "m", "e", "0", "n", "1">>

Disks == {sda, nvme0n1}

DiskOrder == <<sda, nvme0n1>>

T_disk == <<"d", "i", "s", "k">>

T_part == <<"p", "a", "r", "t">>

T_crypt == <<"c", "r", "y", "p", "t">>

T_lvm == <<"l", "v", "m">>

T_dm == <<"d", "m">>

\* the kernel's name of partition n of a disk (sda1, nvme0n1p1)
KernelPartName(disk, n) ==
    IF isDigit(disk[Len(disk)]) THEN disk \o <<"p">> \o NatToStr(n)
    ELSE disk \o NatToStr(n)

\* device-mapper nodes that may sit on a partition: a LUKS mapping and a
\* logical volume on it; name is the mapper name, kname the kernel name
cr == <<"c", "r">>

vg == <<"v", "g">>

dm0 == <<"d", "m", "-", "0">>

dm1 == <<"d", "m", "-", "1">>

MapperPrefix == <<"m", "a", "p", "p", "e", "r", "/">>

CryptNode(pk) == [name |-> cr, kname |-> dm0, type |-> T_crypt, pk |-> pk]

LvmNode == [name |-> vg, kname |-> dm1, type |-> T_lvm, pk |-> dm0]

\* a logical volume whose physical volume is the partition itself
LvmOn(pk) == [name |-> vg, kname |-> dm1, type |-> T_lvm, pk |-> pk]

LayerOrder == <<dm0, dm1>>

\* partition numbers in ascending order
RECURSIVE SortedNums(_)
SortedNums(S) ==
    IF S = {} THEN <<>>
    ELSE LET m == CHOOSE x \in S : \A y \in S : x <= y
         IN <<m>> \o SortedNums(S \ {m})

RECURSIVE Flatten(_)
Flatten(seqs) ==
    IF seqs = <<>> THEN <<>> ELSE Head(seqs) \o Flatten(Tail(seqs))

\* one output row of lsblk -o NAME,TYPE,PKNAME after the split on white
\* space: an empty PKNAME column leaves no token
Row3(name, type, pk) ==
    IF pk = EmptyStr THEN <<name, type>> ELSE <<name, type, pk>>

\* rows of the device-mapper nodes stacked on kernel name kn, depth first
RECURSIVE LayerRows(_, _)
LayerRows(kn, depth) ==
    IF depth = 0 THEN <<>>
    ELSE Flatten([i \in 1..Len(LayerOrder) |->
            LET l == {x \in sys.layers : x.kname = LayerOrder[i] /\ x.pk = kn}
            IN IF l = {} THEN <<>>
               ELSE LET x == CHOOSE y \in l : TRUE
                    IN <<Row3(x.name, x.type, x.pk)>>
                       \o LayerRows(x.kname, depth - 1)])

PartRows(disk, n) ==
    <<Row3(KernelPartName(disk, n), T_part, disk)>>
    \o LayerRows(KernelPartName(disk, n), Len(LayerOrder))

DiskRows(disk) ==
    <<Row3(disk, T_disk, EmptyStr)>>
    \o Flatten([i \in 1..Cardinality(kview[disk]) |->
                  PartRows(disk, SortedNums(kview[disk])[i])])

\* lsblk -ln -o NAME,TYPE,PKNAME: one row per block device
LsblkAll ==
    IF sys.lsblkOk
    THEN Flatten([i \in 1..Len(DiskOrder) |-> DiskRows(DiskOrder[i])])
    ELSE <<>>

\* lsblk -ln -o NAME,TYPE,PKNAME <path>: the device at path, then what is
\* stacked on it; nothing when path names no block device
LsblkDev(path) ==
    IF ~sys.lsblkOk THEN <<>>
    ELSE IF \E d \in Disks : path = Dev(d)
    THEN DiskRows(CHOOSE d \in Disks : path = Dev(d))
    ELSE IF \E d \in Disks : \E n \in kview[d] : path = Dev(KernelPartName(d, n))
    THEN LET d == CHOOSE d \in Disks :
                     \E n \in kview[d] : path = Dev(KernelPartName(d, n))
             n == CHOOSE n \in kview[d] : path = Dev(KernelPartName(d, n))
         IN PartRows(d, n)
    ELSE IF \E x \in sys.layers :
               path = Dev(x.kname) \/ path = Dev(MapperPrefix \o x.name)
    THEN LET x == CHOOSE x \in sys.layers :
                     path = Dev(x.kname) \/ path = Dev(MapperPrefix \o x.name)
         IN <<Row3(x.name, x.type, x.pk)>>
            \o LayerRows(x.kname, Len(LayerOrder))
    ELSE <<>>

\* the device nodes that exist under /dev (none of them a symbolic link)
DevNodes ==
    {Dev(d) : d \in Disks}
    \cup UNION {{Dev(KernelPartName(d, n)) : n \in kview[d]} : d \in Disks}
    \cup {Dev(x.kname) : x \in sys.layers}

\* QFileInfo(path).canonicalFilePath(): empty for a path that does not exist
canonicalFilePath(path) == IF path \in DevNodes THEN path ELSE EmptyStr

-----------------------------------------------------------------------------
(* childPartitionsSet, detectNewPartitionNode *)

baseNameOf(devPath) == IF startsWith(devPath, DevPrefix) THEN mid(devPath, 5) ELSE devPath

childPartitionsSet(devPath) ==
    LET base == baseNameOf(devPath)
        rows == LsblkAll
    IN {rows[i][1] : i \in {j \in 1..Len(rows) :
                              /\ Len(rows[j]) >= 3
                              /\ rows[j][2] = T_part
                              /\ rows[j][3] = base}}

\* a variant that settles an ambiguous difference by taking one of its names
detectNewPartitionNode_Guess(devPath, before) ==
    LET diff == childPartitionsSet(devPath) \ before
    IN IF diff = {} THEN EmptyStr
       ELSE Dev(CHOOSE k \in diff : \A o \in diff : Len(o) <= Len(k))

detectNewPartitionNode(devPath, before) ==
    LET after == childPartitionsSet(devPath)
        diff == after \ before
    IN IF Cardinality(diff) # 1 THEN EmptyStr
       ELSE Dev(CHOOSE kernelName \in diff : TRUE)

-----------------------------------------------------------------------------
(* resolveBaseDisk, rootSourceDevice, isSystemDisk *)

\* the depth guard of resolveBaseDisk's loop
MaxHops == 6

\* a variant that returns the node it stands on when the hops are used up
RECURSIVE resolveWalk_ReturnsLast(_, _)
resolveWalk_ReturnsLast(cur, hop) ==
    IF hop >= MaxHops THEN cur
    ELSE LET cols == Flatten(LsblkDev(cur))
             pk == IF Len(cols) >= 3 THEN cols[3] ELSE EmptyStr
         IN IF cols = <<>> THEN EmptyStr
            ELSE IF Len(cols) >= 2 /\ cols[2] = T_disk THEN Dev(cols[1])
            ELSE IF Len(cols) >= 2 /\ pk # EmptyStr
                 THEN resolveWalk_ReturnsLast(Dev(pk), hop + 1)
            ELSE EmptyStr

RECURSIVE resolveWalk(_, _)
resolveWalk(cur, hop) ==
    IF hop >= MaxHops THEN EmptyStr
    ELSE LET cols == Flatten(LsblkDev(cur))
             pk == IF Len(cols) >= 3 THEN cols[3] ELSE EmptyStr
         IN IF cols = <<>> THEN EmptyStr
            ELSE IF Len(cols) >= 2 /\ cols[2] = T_disk THEN Dev(cols[1])
            ELSE IF Len(cols) >= 2 /\ pk # EmptyStr
                 THEN resolveWalk(Dev(pk), hop + 1)
            ELSE EmptyStr

resolveBaseDisk(devOrMapper) ==
    IF ~startsWith(devOrMapper, DevPrefix) THEN EmptyStr
    ELSE resolveWalk(devOrMapper, 0)

\* the nodes the loop of resolveBaseDisk asks lsblk about, in order
RECURSIVE resolveQueries(_, _)
resolveQueries(cur, hop) ==
    IF hop >= MaxHops THEN <<>>
    ELSE LET cols == Flatten(LsblkDev(cur))
             pk == IF Len(cols) >= 3 THEN cols[3] ELSE EmptyStr
         IN <<cur>>
            \o (IF cols # <<>> /\ Len(cols) >= 2 /\ cols[2] # T_disk
                    /\ pk # EmptyStr
                 THEN resolveQueries(Dev(pk), hop + 1)
                 ELSE <<>>)

UuidPrefix == <<"U", "U", "I", "D", "=">>

LabelPrefix == <<"L", "A", "B", "E", "L", "=">>

rootSourceDevice ==
    LET out == trimmed(sys.findmnt)
        src == IF out = EmptyStr THEN sys.procMounts ELSE out
    IN IF /\ ~startsWith(src, DevPrefix)
          /\ (startsWith(src, UuidPrefix) \/ startsWith(src, LabelPrefix))
          /\ startsWith(trimmed(sys.blkid), DevPrefix)
       THEN trimmed(sys.blkid)
       ELSE src

\* a variant that takes two failed resolutions for the same disk
isSystemDisk_EmptyEqual(devPath) ==
    LET rootSrc == rootSourceDevice
    IN IF rootSrc = EmptyStr THEN FALSE
       ELSE canonicalFilePath(resolveBaseDisk(rootSrc))
              = canonicalFilePath(resolveBaseDisk(devPath))

isSystemDisk(devPath) ==
    LET rootSrc == rootSourceDevice
        rootDisk == resolveBaseDisk(rootSrc)
        targetDisk == resolveBaseDisk(devPath)
    IN IF rootSrc = EmptyStr THEN FALSE
       ELSE IF rootDisk = EmptyStr \/ targetDisk = EmptyStr THEN FALSE
       ELSE canonicalFilePath(rootDisk) = canonicalFilePath(targetDisk)

-----------------------------------------------------------------------------
(* What backs "/" and how the system reports it *)

NoDisk == EmptyStr

Airootfs == <<"a", "i", "r", "o", "o", "t", "f", "s">>

SubvolSuffix == <<"[", "/", "@", "]">>

UuidX == UuidPrefix \o <<"x">>

LabelR == LabelPrefix \o <<"r">>

\* the partition that holds the running root when disk d is the system disk
RootPart(d) == KernelPartName(d, 2)

SysForms == {"plain", "crypt", "lvm", "lvmpart", "subvol", "procmounts",
             "nosource", "uuid", "uuidUnknown", "label", "lsblkFails"}

\* the running system on disk d, reported in one of the forms above
SysOn(d, form) ==
    [rootDisk   |-> d,
     findmnt    |-> CASE form = "crypt" -> Dev(MapperPrefix \o cr)
                      [] form \in {"lvm", "lvmpart"} -> Dev(MapperPrefix \o vg)
                      [] form = "subvol" -> Dev(RootPart(d)) \o SubvolSuffix
                      [] form \in {"procmounts", "nosource"} -> EmptyStr
                      [] form \in {"uuid", "uuidUnknown"} -> UuidX
                      [] form = "label" -> LabelR
                      [] OTHER -> Dev(RootPart(d)),
     procMounts |-> IF form = "procmounts" THEN Dev(RootPart(d)) ELSE EmptyStr,
     blkid      |-> IF form \in {"uuid", "label"} THEN Dev(RootPart(d))
                    ELSE EmptyStr,
     lsblkOk    |-> form # "lsblkFails",
     layers     |-> CASE form = "crypt" -> {CryptNode(RootPart(d))}
                      [] form = "lvm" -> {CryptNode(RootPart(d)), LvmNode}
                      [] form = "lvmpart" -> {LvmOn(RootPart(d))}
                      [] OTHER -> {}]

\* the installer started from its live medium: "/" is an overlay, no disk
SysLive ==
    [rootDisk |-> NoDisk, findmnt |-> Airootfs, procMounts |-> EmptyStr,
     blkid |-> EmptyStr, lsblkOk |-> TRUE, layers |-> {}]

AllSys == {SysLive} \cup {SysOn(d, f) : d \in Disks, f \in SysForms}

\* device-mapper nodes whose parent names form a cycle, name the node
\* itself, or are missing
CycleLayers ==
    {[name |-> cr, kname |-> dm0, type |-> T_crypt, pk |-> dm1],
     [name |-> vg, kname |-> dm1, type |-> T_lvm, pk |-> dm0]}

SelfLayers == {[name |-> cr, kname |-> dm0, type |-> T_crypt, pk |-> dm0]}

OrphanLayers == {[name |-> cr, kname |-> dm0, type |-> T_crypt, pk |-> EmptyStr]}

OddSys ==
    {[SysLive EXCEPT !.layers = l] :
        l \in {CycleLayers, SelfLayers, OrphanLayers}}

\* the disk a kernel name really sits on, NoDisk when there is none
RECURSIVE DiskOfKName(_, _)
DiskOfKName(kn, depth) ==
    IF kn \in Disks THEN kn
    ELSE IF \E d \in Disks : \E n \in kview[d] : kn = KernelPartName(d, n)
    THEN CHOOSE d \in Disks : \E n \in kview[d] : kn = KernelPartName(d, n)
    ELSE IF depth > 0 /\ \E x \in sys.layers : x.kname = kn
    THEN DiskOfKName((CHOOSE x \in sys.layers : x.kname = kn).pk, depth - 1)
    ELSE NoDisk

\* the disk the device at a path really sits on
BackingDisk(path) ==
    IF ~startsWith(path, DevPrefix) THEN NoDisk
    ELSE IF \E x \in sys.layers : path = Dev(MapperPrefix \o x.name)
    THEN DiskOfKName((CHOOSE x \in sys.layers :
                        path = Dev(MapperPrefix \o x.name)).kname,
                     Len(LayerOrder))
    ELSE DiskOfKName(mid(path, 5), Len(LayerOrder))

-----------------------------------------------------------------------------
(* The helpers applied to inputs drawn from bounded sets *)

MaxNameLen == 3

MaxPartNum == 11

MaxPathLen == 4

MaxMiB == 3

MaxParts == 3

StrsUpTo(A, n) == UNION {[1..k -> A] : k \in 0..n}

NodeForArgs ==
    {[fn |-> "partitionNodeFor", baseName |-> b, partNum |-> n] :
        b \in StrsUpTo({"a", "0", "7"}, MaxNameLen) \cup {sda, nvme0n1},
        n \in 0..MaxPartNum}

mmcblk0p1 == <<"m", "m", "c", "b", "l", "k", "0", "p", "1">>

NumberFromPathArgs ==
    {[fn |-> "partitionNumberFromPath", partPath |-> p] :
        p \in StrsUpTo({"/", "a", "p", "1", "2"}, MaxPathLen)
              \cup {Dev(sda), Dev(nvme0n1), Dev(mmcblk0p1)}
              \cup {Dev(KernelPartName(d, n)) : d \in Disks, n \in 1..MaxPartNum}}

TwoDigits(f) == <<DigitSeq[(f \div 10) + 1], DigitSeq[(f % 10) + 1]>>

\* the decimal texts of a value h (in hundredths), "." or "," as separator
DecForms(h) ==
    LET ip == NatToStr(h \div Scale)
        f == h % Scale
    IN {ip \o <<sep>> \o TwoDigits(f) : sep \in {".", ","}}
       \cup (IF f % 10 = 0
             THEN {ip \o <<sep, DigitSeq[(f \div 10) + 1]>> : sep \in {".", ","}}
             ELSE {})
       \cup (IF f = 0 THEN {ip} ELSE {})

MiBSuffix == <<"M", "i", "B">>

DecimalTexts ==
    UNION {{[str |-> t \o suf, val |-> h, valid |-> TRUE] :
               t \in DecForms(h), suf \in {EmptyStr, MiBSuffix}} :
           h \in {Scale * i + f : i \in 0..MaxMiB, f \in {0, 50, 99}}}

BadTexts ==
    {[str |-> t, val |-> 0, valid |-> FALSE] :
        t \in {EmptyStr, <<"x">>, <<"1", ".", "2", ".", "3">>}}

ParseArgs ==
    {[fn |-> "parseMiBToBounds", startStr |-> a, endStr |-> b] :
        a \in DecimalTexts \cup BadTexts, b \in DecimalTexts \cup BadTexts}

DetectArgs ==
    {[fn |-> "detectNewPartitionNode", devPath |-> Dev(d),
      before |-> {KernelPartName(d, n) : n \in B}] :
        d \in Disks, B \in SUBSET (1..MaxParts)}

sdz == <<"s", "d", "z">>

IsSystemDiskArgs ==
    {[fn |-> "isSystemDisk", devPath |-> p] :
        p \in {Dev(d) : d \in Disks} \cup {Dev(RootPart(d)) : d \in Disks}
              \cup {sda, Dev(sdz), Dev(cr)}}

ResolveArgs ==
    {[fn |-> "resolveBaseDisk", devOrMapper |-> p] :
        p \in {Dev(d) : d \in Disks} \cup {Dev(RootPart(d)) : d \in Disks}
              \cup {sda, Dev(sdz), Dev(dm0), Dev(dm1),
                    Dev(MapperPrefix \o cr), Dev(MapperPrefix \o vg)}}

NotReturned == [done |-> FALSE]

Returned(v) == [done |-> TRUE, v |-> v]

NoFile == [exists |-> FALSE]

\* the worker is not running in SpecFn
RunIdle ==
    /\ selectedDrive = EmptyStr /\ mode = "WipeDrive"
    /\ targetPartition = EmptyStr /\ efiInstall = FALSE
    /\ pc = "idle" /\ loc = [x |-> 0] /\ cmds = <<>> /\ signals = <<>>
    /\ table = [d \in Disks |-> {}]
    /\ stateFile = NoFile

InitFn ==
    /\ RunIdle
    /\ wiz = NoWizard
    /\ fnRet = NotReturned
    /\ \/ /\ fnCall \in NodeForArgs \cup NumberFromPathArgs \cup ParseArgs
          /\ kview = [d \in Disks |-> {}]
          /\ sys = SysLive
       \/ /\ fnCall \in DetectArgs
          /\ \E K \in SUBSET (1..MaxParts) : kview = [d \in Disks |-> K]
          /\ sys \in {SysLive, SysOn(sda, "crypt")}
       \/ /\ fnCall \in IsSystemDiskArgs
          /\ kview = [d \in Disks |-> {1, 2}]
          /\ sys \in AllSys
       \/ /\ fnCall \in ResolveArgs
          /\ kview = [d \in Disks |-> {1, 2}]
          /\ sys \in AllSys \cup OddSys

Return(v) ==
    /\ fnRet = NotReturned
    /\ fnRet' = Returned(v)
    /\ UNCHANGED <<fnCall, runVars>>

CallPartitionNodeFor ==
    /\ fnCall.fn = "partitionNodeFor"
    /\ Return(partitionNodeFor(fnCall.baseName, fnCall.partNum))

CallPartitionNumberFromPath ==
    /\ fnCall.fn = "partitionNumberFromPath"
    /\ Return(partitionNumberFromPath(fnCall.partPath))

CallParseMiBToBounds ==
    /\ fnCall.fn = "parseMiBToBounds"
    /\ Return(parseMiBToBounds(fnCall.startStr.str, fnCall.endStr.str, 0, 0))

CallDetectNewPartitionNode ==
    /\ fnCall.fn = "detectNewPartitionNode"
    /\ Return(detectNewPartitionNode(fnCall.devPath, fnCall.before))

CallIsSystemDisk ==
    /\ fnCall.fn = "isSystemDisk"
    /\ Return(isSystemDisk(fnCall.devPath))

\* the value returned and the lsblk queries made on the way
CallResolveBaseDisk ==
    /\ fnCall.fn = "resolveBaseDisk"
    /\ Return([disk |-> resolveBaseDisk(fnCall.devOrMapper),
               queries |-> IF startsWith(fnCall.devOrMapper, DevPrefix)
                           THEN resolveQueries(fnCall.devOrMapper, 0)
                           ELSE <<>>])

NextFn ==
    \/ CallPartitionNodeFor
    \/ CallPartitionNumberFromPath
    \/ CallParseMiBToBounds
    \/ CallDetectNewPartitionNode
    \/ CallIsSystemDisk
    \/ CallResolveBaseDisk

SpecFn == InitFn /\ [][NextFn]_vars

-----------------------------------------------------------------------------
(* The partition table as parted edits and prints it *)

\* size of each disk in MiB
DiskSizeMiB == 2048

DiskEnd == Scale * DiskSizeMiB

\* the first 0.02 MiB of a disk hold the GPT, and so do the last
GptReserve == 2

FirstUsable == GptReserve

LastUsable == DiskEnd - GptReserve

\* parted moves a bound that falls into a GPT area to the nearest usable
\* position
Usable(pos) ==
    IF pos < FirstUsable THEN FirstUsable
    ELSE IF pos > LastUsable THEN LastUsable ELSE pos

\* a MiB token ("513MiB") or a percentage ("100%") given to mkpart
MiB(n) == [unit |-> "MiB", n |-> n]

Percent(n) == [unit |-> "%", n |-> n]

\* where parted puts a bound given as a token, in hundredths of a MiB
TokenPos(tok) ==
    Usable(IF tok.unit = "%" THEN (DiskEnd * tok.n) \div 100 ELSE Scale * tok.n)

NoLabel == <<>>

Part(num, startMiB, endMiB, fs, label, flags, mp) ==
    [num |-> num, start |-> Scale * startMiB, end |-> Scale * endMiB,
     fs |-> fs, label |-> label, flags |-> flags, mp |-> mp]

Nums(tbl) == {p.num : p \in tbl}

PartOf(tbl, n) == CHOOSE p \in tbl : p.num = n

\* parted numbers a new partition with the lowest free number
LowestFree(tbl) ==
    CHOOSE n \in 1..(Cardinality(tbl) + 1) :
        n \notin Nums(tbl) /\ \A m \in 1..(n - 1) : m \in Nums(tbl)

\* mkpart can succeed only on a non-empty range of free space
CanCreate(tbl, from, to) ==
    /\ FirstUsable <= from /\ from < to /\ to <= LastUsable
    /\ \A p \in tbl : to <= p.start \/ p.end <= from

Created(tbl, from, to) ==
    tbl \cup {[num |-> LowestFree(tbl), start |-> from, end |-> to,
               fs |-> "", label |-> NoLabel, flags |-> {}, mp |-> ""]}

Removed(tbl, n) == {p \in tbl : p.num # n}

Named(tbl, n, label) ==
    {IF p.num = n THEN [p EXCEPT !.label = label] ELSE p : p \in tbl}

Flagged(tbl, n, flag) ==
    {IF p.num = n THEN [p EXCEPT !.flags = @ \cup {flag}] ELSE p : p \in tbl}

\* mkfs on a partition node writes a filesystem; on the whole-disk node it
\* overwrites the partition table
Formatted(tbl, disk, node, fs) ==
    IF node = Dev(disk) THEN {}
    ELSE {IF Dev(KernelPartName(disk, p.num)) = node
          THEN [p EXCEPT !.fs = fs] ELSE p : p \in tbl}

\* a value of parted's "unit MiB print": whole numbers bare, others with two
\* decimals
PartedNum(h) ==
    IF h % Scale = 0 THEN NatToStr(h \div Scale)
    ELSE NatToStr(h \div Scale) \o <<".">> \o TwoDigits(h % Scale)

\* the extents "print free" marks free: the gaps between the partitions
\* and the space after the last one
FreeExtents(tbl) ==
    LET bounds == {FirstUsable} \cup {p.end : p \in tbl}
        NextStart(b) ==
            LET later == {p.start : p \in {q \in tbl : q.start >= b}}
            IN IF later = {} THEN LastUsable
               ELSE CHOOSE x \in later : \A y \in later : x <= y
    IN {[start |-> b, end |-> NextStart(b)] :
           b \in {x \in bounds : NextStart(x) > x}}

-----------------------------------------------------------------------------
(* Disk layouts a run can start from *)

ESPLabel == <<"ESP">>

LayoutEmpty == {}

\* an ESP, a root partition, then free space
LayoutEfi ==
    {Part(1, 1, 513, "vfat", ESPLabel, {"boot", "esp"}, ""),
     Part(2, 513, 1024, "ext4", NoLabel, {}, "")}

\* a bios_grub partition, a root partition, then free space
LayoutBios ==
    {Part(1, 1, 3, "", NoLabel, {"bios_grub"}, ""),
     Part(2, 3, 1024, "ext4", NoLabel, {}, "")}

\* no boot partition: an active swap partition, a data partition and a
\* small partition mounted by the user
LayoutData ==
    {Part(1, 1, 600, "swap", NoLabel, {}, "[SWAP]"),
     Part(2, 600, 1200, "ext4", NoLabel, {}, ""),
     Part(3, 1500, 1502, "ext4", NoLabel, {}, "/media/usb")}

\* a data partition, a partition mounted by the user that holds no whole
\* MiB (600.50 MiB to 600.90 MiB) and, after a gap of 512.50 MiB, a
\* partition from 1113.40 MiB to 2000 MiB
LayoutOdd ==
    {Part(1, 1, 600, "ext4", NoLabel, {}, ""),
     [Part(2, 600, 601, "ext4", NoLabel, {}, "/mnt/usb")
        EXCEPT !.start = 600 * Scale + 50, !.end = 600 * Scale + 90],
     [Part(3, 1113, 2000, "ext4", NoLabel, {}, "")
        EXCEPT !.start = 1113 * Scale + 40]}

Layouts == {LayoutEmpty, LayoutEfi, LayoutBios, LayoutData, LayoutOdd}

-----------------------------------------------------------------------------
(* findExistingEsp, findExistingBiosGrub, isPartitionVfat,
   getPartitionGeometry *)

EspGuid == "c12a7328-f81f-11d2-ba4b-00a0c93ec93b"

BiosGuid == "21686148-6449-6e6f-744e-656564454649"

LinuxGuid == "0fc63daf-8483-4772-8e79-3d69d8477de4"

PartTypeOf(p) ==
    IF "esp" \in p.flags THEN EspGuid
    ELSE IF "bios_grub" \in p.flags THEN BiosGuid ELSE LinuxGuid

\* QString::toLower on a column of lsblk
toLower(w) == CASE w = "ESP" -> "esp" [] w = "EFI" -> "efi" [] OTHER -> w

\* label.contains("esp") || label.contains("efi system") on one column: a
\* column holds no blank, so only "esp" can be found in it
labelMatches(w) == toLower(w) = "esp"

\* a partition row of lsblk -o NAME,TYPE,PKNAME,PARTTYPE,PARTLABEL,FSTYPE
\* after the split on white space; a partition the kernel lists but the
\* table no longer holds shows no type, label or filesystem
Row6(disk, n) ==
    <<KernelPartName(disk, n), T_part, disk>>
    \o (IF n \in Nums(table[disk])
        THEN LET p == PartOf(table[disk], n)
             IN <<PartTypeOf(p)>> \o p.label
                \o (IF p.fs = "" THEN <<>> ELSE <<p.fs>>)
        ELSE <<>>)

Lsblk6 ==
    IF sys.lsblkOk
    THEN Flatten([i \in 1..Len(DiskOrder) |->
            LET d == DiskOrder[i]
            IN <<<<d, T_disk>>>>
               \o [j \in 1..Cardinality(kview[d]) |->
                     Row6(d, SortedNums(kview[d])[j])]])
    ELSE <<>>

\* rows of parted -m print with a number in the first column, in table
\* order
PartedRows(disk) ==
    [i \in 1..Cardinality(table[disk]) |->
        PartOf(table[disk], SortedNums(Nums(table[disk]))[i])]

findExistingEsp(devPath) ==
    LET base == baseNameOf(devPath)
        rows == Lsblk6
        hits == {i \in 1..Len(rows) :
                    /\ Len(rows[i]) >= 6
                    /\ rows[i][2] = T_part /\ rows[i][3] = base
                    /\ \/ toLower(rows[i][4]) = EspGuid
                       \/ labelMatches(rows[i][5])
                       \/ toLower(rows[i][6]) \in {"vfat", "fat32"}}
        plines == IF base \in Disks THEN PartedRows(base) ELSE <<>>
        flagged == {i \in 1..Len(plines) : "esp" \in plines[i].flags}
    IN IF hits # {}
       THEN Dev(rows[CHOOSE i \in hits : \A j \in hits : i <= j][1])
       ELSE IF flagged # {}
       THEN partitionNodeFor(base,
               plines[CHOOSE i \in flagged : \A j \in flagged : i <= j].num)
       ELSE EmptyStr

findExistingBiosGrub(devPath) ==
    LET base == baseNameOf(devPath)
        lines == IF base \in Disks THEN PartedRows(base) ELSE <<>>
        flagged == {i \in 1..Len(lines) : "bios_grub" \in lines[i].flags}
    IN IF flagged # {}
       THEN partitionNodeFor(base,
               lines[CHOOSE i \in flagged : \A j \in flagged : i <= j].num)
       ELSE EmptyStr

\* lsblk -no FSTYPE <partPath>
isPartitionVfat(partPath) ==
    \E d \in Disks : \E p \in table[d] :
        /\ sys.lsblkOk
        /\ p.num \in kview[d]
        /\ partPath = Dev(KernelPartName(d, p.num))
        /\ toLower(p.fs) \in {"vfat", "fat32", "msdos"}

\* the digits matched by (\d+)$ in a name
TrailingDigits(name) ==
    SubSeq(name, SkipTrailingDigits(name, Len(name)) + 1, Len(name))

\* startMiB and endMiB are the texts captured from the row of parted's
\* print whose first column is the partition number
getPartitionGeometry(targetPart, drive) ==
    LET partName == baseNameOf(targetPart)
        partNum == TrailingDigits(partName)
        rows == IF drive \in Disks
                THEN {p \in table[drive] : NatToStr(p.num) = partNum} ELSE {}
    IN IF partNum = EmptyStr \/ rows = {}
       THEN [ok |-> FALSE, startMiB |-> EmptyStr, endMiB |-> EmptyStr]
       ELSE LET p == CHOOSE q \in rows : TRUE
            IN [ok |-> TRUE, startMiB |-> PartedNum(p.start),
                endMiB |-> PartedNum(p.end)]

-----------------------------------------------------------------------------
(* Commands the worker executes, as recorded in cmds.  rc is the exit code
   of a command whose effect or whose result the run depends on. *)

Umount(flags, path) == [cmd |-> "umount", flags |-> flags, path |-> path]

UmountNode(node) == [cmd |-> "umount", flags |-> "-l", node |-> node]

UdevadmSettle == [cmd |-> "udevadm settle"]

Partprobe(dev) == [cmd |-> "partprobe", dev |-> dev]

Sleep1 == [cmd |-> "sleep"]

Mklabel(dev, rc) == [cmd |-> "mklabel", dev |-> dev, label |-> "gpt", rc |-> rc]

Mkpart(dev, fs, from, to, rc) ==
    [cmd |-> "mkpart", dev |-> dev, fs |-> fs, start |-> from, end |-> to,
     rc |-> rc]

Name(dev, num, label, rc) ==
    [cmd |-> "name", dev |-> dev, num |-> num, label |-> label, rc |-> rc]

SetFlag(dev, num, flag, rc) ==
    [cmd |-> "set", dev |-> dev, num |-> num, flag |-> flag, rc |-> rc]

Rm(dev, num, rc) == [cmd |-> "rm", dev |-> dev, num |-> num, rc |-> rc]

MkfsFat(node, rc) == [cmd |-> "mkfs.fat", node |-> node, rc |-> rc]

MkfsExt4(node, rc) == [cmd |-> "mkfs.ext4", node |-> node, rc |-> rc]

E2fsck(node) == [cmd |-> "e2fsck", node |-> node]

Mkdir(path) == [cmd |-> "mkdir", path |-> path]

Mount(node, path, rc) ==
    [cmd |-> "mount", node |-> node, path |-> path, rc |-> rc]

\* partprobe, udevadm settle, sleep(1)
SettleCmds(dev) == <<Partprobe(dev), UdevadmSettle, Sleep1>>

ExitCodes == {0, 1}

\* what the kernel lists after a re-read of a changed table: the table, or,
\* when the re-read fails on a busy disk, what it listed before
KernelViews(tbl, old) == {Nums(tbl), old}

\* signals, each with the number of commands executed before it
errorOccurred(msg, at) == [sig |-> "errorOccurred", msg |-> msg, at |-> at]

installComplete(at) == [sig |-> "installComplete", at |-> at]

-----------------------------------------------------------------------------
(* A request as the wizard hands it to the worker *)

Modes == {"WipeDrive", "UsePartition", "UseFreeSpace"}

FreePrefix == <<"_", "_", "F", "R", "E", "E", "_", "_", ":">>

\* QString::arg(v, 0, 'f', 2) of a value given in hundredths
Fixed2(h) == NatToStr(h \div Scale) \o <<".">> \o TwoDigits(h % Scale)

FreeToken(from, to) == FreePrefix \o Fixed2(from) \o <<":">> \o Fixed2(to)

\* the extents a user can pick on a disk: the free extents parted shows
\* and a range inside the last of them
FreePicks(tbl) ==
    LET ext == FreeExtents(tbl)
        last == CHOOSE x \in ext : \A y \in ext : y.start <= x.start
    IN ext \cup {[start |-> last.start + Scale \div 2,
                  end |-> last.end - Scale \div 2]}

OtherDisk(d) == CHOOSE o \in Disks : o # d

Targets(m, drive, tbl) ==
    CASE m = "WipeDrive" -> {EmptyStr}
      [] m = "UsePartition" ->
            {Dev(KernelPartName(drive, n)) : n \in 1..MaxParts}
            \cup {Dev(drive), Dev(KernelPartName(OtherDisk(drive), 1))}
      [] OTHER -> {EmptyStr}
                  \cup {FreeToken(x.start, x.end) : x \in FreePicks(tbl)}

StaleFile == [exists |-> TRUE, root |-> Dev(KernelPartName(sda, 2)),
              esp |-> Dev(KernelPartName(sda, 1))]

NoLocals ==
    [startMiB |-> 0, endMiB |-> 0, rootStart |-> 0, rootEnd |-> 0,
     before |-> {}, espPart |-> EmptyStr, rootPart |-> EmptyStr,
     createdNewEsp |-> FALSE, reuseEsp |-> FALSE]

RunSys == {SysLive} \cup {SysOn(sda, f) : f \in {"plain", "subvol", "crypt"}}

Init ==
    /\ fnRet = NotReturned
    /\ selectedDrive \in Disks
    /\ \E l \in Layouts :
          table = [d \in Disks |-> IF d = selectedDrive THEN l ELSE LayoutEfi]
    /\ \/ /\ fnCall = [fn |-> "run"]
          /\ mode \in Modes
          /\ efiInstall \in BOOLEAN
          /\ targetPartition
                \in Targets(mode, selectedDrive, table[selectedDrive])
          /\ sys \in RunSys
       \/ /\ fnCall = [fn |-> "bestEffortDetachDevice"]
          /\ mode = "WipeDrive" /\ efiInstall = FALSE
          /\ targetPartition = EmptyStr
          /\ sys \in AllSys
    /\ \E hidden \in SUBSET Nums(table[selectedDrive]) :
          /\ Cardinality(hidden) <= 1
          /\ \A n \in hidden : PartOf(table[selectedDrive], n).mp = ""
          /\ kview = [d \in Disks |->
                        IF d = selectedDrive THEN Nums(table[d]) \ hidden
                        ELSE Nums(table[d])]
    /\ sys.rootDisk # NoDisk => 2 \in kview[sys.rootDisk]
    /\ stateFile \in {NoFile, StaleFile}
    /\ pc = "idle" /\ loc = NoLocals /\ cmds = <<>> /\ signals = <<>>
    /\ wiz = NoWizard

devPath == Dev(selectedDrive)

request ==
    <<fnCall, fnRet, selectedDrive, mode, targetPartition, efiInstall, wiz>>

\* emit errorOccurred after issuing cs, and return
\* an abort that returns without emitting errorOccurred
Abort_Silent(cs, msg) ==
    /\ cmds' = cmds \o cs
    /\ signals' = signals
    /\ pc' = "done"
    /\ UNCHANGED loc

Abort(cs, msg) ==
    /\ cmds' = cmds \o cs
    /\ signals' = Append(signals, errorOccurred(msg, Len(cmds) + Len(cs)))
    /\ pc' = "done"
    /\ UNCHANGED loc

\* the mountpoint lsblk shows for partition n of a disk
MountpointOf(disk, n) ==
    IF sys.rootDisk = disk /\ sys.findmnt = Dev(KernelPartName(disk, n))
    THEN "/"
    ELSE IF n \in Nums(table[disk]) THEN PartOf(table[disk], n).mp ELSE ""

\* a variant that takes no mountpoint for external
isExternalMountpoint_None(mp) == FALSE

isExternalMountpoint(mp) == mp \in {"/media/usb", "/run/media/usb", "/mnt/usb"}

\* the commands of safePreflightUnmounts(devPath)
\* a preflight that unmounts /mnt before the mountpoints below it
safePreflightUnmounts_RootFirst(path) ==
    LET staging == <<Umount("-Rl", "/mnt"), Umount("-Rl", "/mnt/boot"),
                     Umount("-Rl", "/mnt/boot/efi")>>
        disk == baseNameOf(path)
        listed == IF sys.lsblkOk /\ disk \in Disks
                  THEN SortedNums(kview[disk]) ELSE <<>>
        ext == SelectSeq(listed,
                 LAMBDA n : isExternalMountpoint(MountpointOf(disk, n)))
    IN IF isSystemDisk(path) THEN staging \o <<UdevadmSettle>>
       ELSE staging
            \o [i \in 1..Len(ext) |-> UmountNode(Dev(KernelPartName(disk, ext[i])))]
            \o <<UdevadmSettle>>

safePreflightUnmounts(path) ==
    LET staging == <<Umount("-Rl", "/mnt/boot/efi"), Umount("-Rl", "/mnt/boot"),
                     Umount("-Rl", "/mnt")>>
        disk == baseNameOf(path)
        listed == IF sys.lsblkOk /\ disk \in Disks
                  THEN SortedNums(kview[disk]) ELSE <<>>
        ext == SelectSeq(listed,
                 LAMBDA n : isExternalMountpoint(MountpointOf(disk, n)))
    IN IF isSystemDisk(path) THEN staging \o <<UdevadmSettle>>
       ELSE staging
            \o [i \in 1..Len(ext) |-> UmountNode(Dev(KernelPartName(disk, ext[i])))]
            \o <<UdevadmSettle>>

\* run(), up to the branch on the mode
Run_Begin ==
    /\ pc = "idle" /\ fnCall.fn = "run"
    /\ \E partedFound \in BOOLEAN :
          IF ~partedFound
          THEN /\ Abort(<<>>, "parted not found")
               /\ UNCHANGED stateFile
          ELSE /\ stateFile' = NoFile
               /\ cmds' = cmds \o safePreflightUnmounts(devPath)
               /\ pc' = CASE mode = "WipeDrive" -> "wipe_mklabel"
                          [] mode = "UseFreeSpace" -> "free_begin"
                          [] OTHER -> "part_begin"
               /\ UNCHANGED <<loc, signals>>
    /\ UNCHANGED <<request, table, kview, sys>>

\* WipeDrive: mklabel gpt, then the re-read
Wipe_Mklabel ==
    /\ pc = "wipe_mklabel"
    /\ \E rc \in ExitCodes :
          IF rc # 0
          THEN /\ Abort(<<Mklabel(devPath, rc)>>,
                        "Failed to create GPT partition table.")
               /\ UNCHANGED <<table, kview>>
          ELSE /\ table' = [table EXCEPT ![selectedDrive] = {}]
               /\ kview' \in {[kview EXCEPT ![selectedDrive] = v] :
                                v \in KernelViews({}, kview[selectedDrive])}
               /\ cmds' = cmds \o <<Mklabel(devPath, rc)>> \o SettleCmds(devPath)
               /\ pc' = "wipe_first"
               /\ UNCHANGED <<loc, signals>>
    /\ UNCHANGED <<request, sys, stateFile>>

\* WipeDrive: the first partition, the ESP or the bios_grub partition, made
\* by a chain of parted calls that stops at the first failure
Wipe_First ==
    /\ pc = "wipe_first"
    /\ LET tbl == table[selectedDrive]
           from == TokenPos(MiB(1))
           to == TokenPos(MiB(IF efiInstall THEN 513 ELSE 3))
           chain(rcs) ==
               IF efiInstall
               THEN <<Mkpart(devPath, "fat32", MiB(1), MiB(513), rcs[1]),
                      Name(devPath, <<"1">>, ESPLabel, rcs[2]),
                      SetFlag(devPath, <<"1">>, "esp", rcs[3])>>
               ELSE <<Mkpart(devPath, "", MiB(1), MiB(3), rcs[1]),
                      SetFlag(devPath, <<"1">>, "bios_grub", rcs[2])>>
           n == IF efiInstall THEN 3 ELSE 2
       IN \E failAt \in 0..n :
             LET rcs == [i \in 1..n |-> IF i = failAt THEN 1 ELSE 0]
                 issued == SubSeq(chain(rcs), 1, IF failAt = 0 THEN n ELSE failAt)
                 t1 == IF failAt = 1 THEN tbl ELSE Created(tbl, from, to)
                 t2 == IF efiInstall /\ failAt \notin {1, 2}
                       THEN Named(t1, 1, ESPLabel) ELSE t1
                 t3 == IF failAt = 0
                       THEN Flagged(t2, 1, IF efiInstall THEN "esp" ELSE "bios_grub")
                       ELSE t2
             IN /\ failAt # 1 => CanCreate(tbl, from, to)
                /\ table' = [table EXCEPT ![selectedDrive] = t3]
                /\ IF failAt # 0
                   THEN Abort(issued, IF efiInstall
                                      THEN "Failed to create/set ESP partition."
                                      ELSE "Failed to create/set bios_grub partition.")
                   ELSE /\ cmds' = cmds \o issued
                        /\ pc' = "wipe_root"
                        /\ UNCHANGED <<loc, signals>>
    /\ UNCHANGED <<request, kview, sys, stateFile>>

\* WipeDrive: the root partition up to 100%, then the re-read
Wipe_Root ==
    /\ pc = "wipe_root"
    /\ LET tbl == table[selectedDrive]
           first == MiB(IF efiInstall THEN 513 ELSE 3)
           last == Percent(100)
       IN \E rc \in ExitCodes :
             /\ rc = 0 => CanCreate(tbl, TokenPos(first), TokenPos(last))
             /\ IF rc # 0
                THEN /\ Abort(<<Mkpart(devPath, "ext4", first, last, rc)>>,
                              "Failed to create root partition.")
                     /\ UNCHANGED <<table, kview>>
                ELSE /\ table' = [table EXCEPT ![selectedDrive] =
                                    Created(tbl, TokenPos(first), TokenPos(last))]
                     /\ kview' \in {[kview EXCEPT ![selectedDrive] = v] :
                                      v \in KernelViews(table'[selectedDrive],
                                                        kview[selectedDrive])}
                     /\ cmds' = cmds \o <<Mkpart(devPath, "ext4", first, last, rc)>>
                                     \o SettleCmds(devPath)
                     /\ pc' = "wipe_detect"
                     /\ UNCHANGED <<loc, signals>>
    /\ UNCHANGED <<request, sys, stateFile>>

\* WipeDrive: the last rows of lsblk -ln -o NAME <devPath> name the new
\* partitions
Wipe_Detect ==
    /\ pc = "wipe_detect"
    /\ LET rows == LsblkDev(devPath)
           parts == [i \in 1..Len(rows) |-> rows[i][1]]
       IN IF Len(parts) >= 2
          THEN /\ loc' = [loc EXCEPT
                            !.espPart = IF efiInstall
                                        THEN Dev(parts[Len(parts) - 1])
                                        ELSE EmptyStr,
                            !.rootPart = Dev(parts[Len(parts)])]
               /\ pc' = IF efiInstall THEN "wipe_mkfs_esp" ELSE "wipe_mkfs_root"
               /\ UNCHANGED <<cmds, signals>>
          ELSE Abort(<<>>, "Could not detect created partitions after wipe.")
    /\ UNCHANGED <<request, table, kview, sys, stateFile>>

\* mkfs.fat -F32 on the ESP
MkfsEsp(next, msg) ==
    /\ \E rc \in ExitCodes :
          IF rc # 0
          THEN /\ Abort(<<MkfsFat(loc.espPart, rc)>>, msg)
               /\ UNCHANGED table
          ELSE /\ table' = [d \in Disks |->
                              Formatted(table[d], d, loc.espPart, "vfat")]
               /\ cmds' = Append(cmds, MkfsFat(loc.espPart, rc))
               /\ pc' = next
               /\ UNCHANGED <<loc, signals>>
    /\ UNCHANGED <<request, kview, sys, stateFile>>

\* mkfs.ext4 -F on the root partition, then e2fsck -f
MkfsRoot(next, msg) ==
    /\ \E rc \in ExitCodes :
          IF rc # 0
          THEN /\ Abort(<<MkfsExt4(loc.rootPart, rc)>>, msg)
               /\ UNCHANGED table
          ELSE /\ table' = [d \in Disks |->
                              Formatted(table[d], d, loc.rootPart, "ext4")]
               /\ cmds' = cmds \o <<MkfsExt4(loc.rootPart, rc), E2fsck(loc.rootPart)>>
               /\ pc' = next
               /\ UNCHANGED <<loc, signals>>
    /\ UNCHANGED <<request, kview, sys, stateFile>>

Wipe_MkfsEsp ==
    /\ pc = "wipe_mkfs_esp"
    /\ MkfsEsp("wipe_mkfs_root", "Failed to format ESP.")

Wipe_MkfsRoot ==
    /\ pc = "wipe_mkfs_root"
    /\ MkfsRoot("wipe_mount", "Failed to format root partition.")

\* the mount-state file written by recordTargetMountState; an empty esp
\* stands for a file without that key
recordTargetMountState(rootDev, espDev) ==
    [exists |-> TRUE, root |-> rootDev, esp |-> espDev]

\* WipeDrive: the mounts, whose exit codes the code does not look at, the
\* mount-state file and installComplete
\* the mounts of the wipe path with the ESP mounted before the root
Wipe_Mount_EspFirst ==
    /\ pc = "wipe_mount"
    /\ \E rcRoot, rcEsp \in ExitCodes :
          cmds' = cmds \o (IF efiInstall
                           THEN <<Mkdir("/mnt/boot/efi"),
                                  Mount(loc.espPart, "/mnt/boot/efi", rcEsp)>>
                           ELSE <<>>)
                  \o <<Mount(loc.rootPart, "/mnt", rcRoot)>>
    /\ stateFile' = recordTargetMountState(loc.rootPart,
                        IF efiInstall THEN loc.espPart ELSE EmptyStr)
    /\ signals' = Append(signals, installComplete(Len(cmds')))
    /\ pc' = "done"
    /\ UNCHANGED <<request, loc, table, kview, sys>>

Wipe_Mount ==
    /\ pc = "wipe_mount"
    /\ \E rcRoot, rcEsp \in ExitCodes :
          cmds' = cmds \o <<Mount(loc.rootPart, "/mnt", rcRoot)>>
                  \o (IF efiInstall
                      THEN <<Mkdir("/mnt/boot/efi"),
                             Mount(loc.espPart, "/mnt/boot/efi", rcEsp)>>
                      ELSE <<>>)
    /\ stateFile' = recordTargetMountState(loc.rootPart,
                        IF efiInstall THEN loc.espPart ELSE EmptyStr)
    /\ signals' = Append(signals, installComplete(Len(cmds')))
    /\ pc' = "done"
    /\ UNCHANGED <<request, loc, table, kview, sys>>

-----------------------------------------------------------------------------
(* UseFreeSpace: createFromFreeSpace *)

\* QString::split(sep)
RECURSIVE split(_, _)
split(s, sep) ==
    LET at == {i \in 1..Len(s) : s[i] = sep}
    IN IF at = {} THEN <<s>>
       ELSE LET i == CHOOSE x \in at : \A y \in at : x <= y
            IN <<SubSeq(s, 1, i - 1)>> \o split(mid(s, i), sep)

\* the miB lambda: static_cast<qulonglong>(v + 0.5), as a number of MiB
miB(h) == (h + Scale \div 2) \div Scale

\* the toMiBnum lambda: the digits and points of a field, as a double
toMiBnum(t) == toDouble(SelectSeq(t, LAMBDA c : isDigit(c) \/ c = ".")).val

MiBText(h) == PartedNum(h) \o <<"M", "i", "B">>

\* the rows parted -m unit MiB print free writes for free extents, split
\* on ':'; the last field of a row carries the terminating semicolon
FreeLines(tbl) ==
    LET ext == FreeExtents(tbl)
        starts == SortedNums({x.start : x \in ext})
    IN [i \in 1..Len(starts) |->
          LET x == CHOOSE y \in ext : y.start = starts[i]
          IN [start |-> MiBText(x.start), end |-> MiBText(x.end),
              size |-> MiBText(x.end - x.start), kind |-> "free;"]]

\* the largest free row, as the loop over the rows finds it
RECURSIVE largestFree(_, _)
largestFree(lines, best) ==
    IF lines = <<>> THEN best
    ELSE LET l == Head(lines)
             isFree == toLower(l.kind) = "free"
             from == toMiBnum(l.start)
             to == toMiBnum(l.end)
             z == toMiBnum(l.size)
         IN IF isFree /\ z > best.size /\ to > from
            THEN largestFree(Tail(lines), [size |-> z, start |-> from, end |-> to])
            ELSE largestFree(Tail(lines), best)

\* the root partition ends one MiB short of the range it is made in
rootEnd_NoTail(endMiB) == endMiB

rootEnd(endMiB) == endMiB - 1

\* the extent chosen, the size check and the choice of a strategy
\* a variant without the check of the extent's size
Free_Begin_AnySize ==
    /\ pc = "free_begin"
    /\ LET t == split(targetPartition, ":")
           given == startsWith(targetPartition, FreePrefix) /\ Len(t) >= 3
           selStartMiB == IF given THEN toDouble(t[2]).val ELSE -Scale
           selEndMiB == IF given THEN toDouble(t[3]).val ELSE -Scale
           best == largestFree(FreeLines(table[selectedDrive]),
                               [size |-> 0, start |-> -Scale, end |-> -Scale])
           useSel == selStartMiB > 0 /\ selEndMiB > selStartMiB
           startMiB == miB(IF useSel THEN selStartMiB ELSE best.start)
           endMiB == miB(IF useSel THEN selEndMiB ELSE best.end)
           existingEsp == findExistingEsp(devPath)
       IN IF ~useSel /\ best.start < 0
          THEN Abort(<<>>, "No suitable free space found.")
          ELSE IF FALSE
          THEN Abort(<<>>, "Selected free space is too small.")
          ELSE IF efiInstall /\ existingEsp # EmptyStr
                  /\ ~isPartitionVfat(existingEsp)
          THEN Abort(<<>>, "Existing ESP is not FAT32. Refusing to modify it.")
          ELSE /\ loc' = [loc EXCEPT
                            !.startMiB = startMiB, !.endMiB = endMiB,
                            !.rootStart = startMiB, !.rootEnd = rootEnd(endMiB),
                            !.before = childPartitionsSet(devPath),
                            !.espPart = IF efiInstall THEN existingEsp
                                        ELSE EmptyStr,
                            !.reuseEsp = efiInstall /\ existingEsp # EmptyStr]
               /\ pc' = IF efiInstall /\ existingEsp = EmptyStr
                        THEN "free_esp" ELSE "free_root"
               /\ UNCHANGED <<cmds, signals>>
    /\ UNCHANGED <<request, table, kview, sys, stateFile>>

Free_Begin ==
    /\ pc = "free_begin"
    /\ LET t == split(targetPartition, ":")
           given == startsWith(targetPartition, FreePrefix) /\ Len(t) >= 3
           selStartMiB == IF given THEN toDouble(t[2]).val ELSE -Scale
           selEndMiB == IF given THEN toDouble(t[3]).val ELSE -Scale
           best == largestFree(FreeLines(table[selectedDrive]),
                               [size |-> 0, start |-> -Scale, end |-> -Scale])
           useSel == selStartMiB > 0 /\ selEndMiB > selStartMiB
           startMiB == miB(IF useSel THEN selStartMiB ELSE best.start)
           endMiB == miB(IF useSel THEN selEndMiB ELSE best.end)
           existingEsp == findExistingEsp(devPath)
       IN IF ~useSel /\ best.start < 0
          THEN Abort(<<>>, "No suitable free space found.")
          ELSE IF endMiB <= startMiB + 10
          THEN Abort(<<>>, "Selected free space is too small.")
          ELSE IF efiInstall /\ existingEsp # EmptyStr
                  /\ ~isPartitionVfat(existingEsp)
          THEN Abort(<<>>, "Existing ESP is not FAT32. Refusing to modify it.")
          ELSE /\ loc' = [loc EXCEPT
                            !.startMiB = startMiB, !.endMiB = endMiB,
                            !.rootStart = startMiB, !.rootEnd = rootEnd(endMiB),
                            !.before = childPartitionsSet(devPath),
                            !.espPart = IF efiInstall THEN existingEsp
                                        ELSE EmptyStr,
                            !.reuseEsp = efiInstall /\ existingEsp # EmptyStr]
               /\ pc' = IF efiInstall /\ existingEsp = EmptyStr
                        THEN "free_esp" ELSE "free_root"
               /\ UNCHANGED <<cmds, signals>>
    /\ UNCHANGED <<request, table, kview, sys, stateFile>>

\* parted mkpart over [from, to] MiB and, when it succeeds, the re-read
MkpartStep(fs, from, to, next, msg) ==
    /\ LET tbl == table[selectedDrive]
           c(rc) == Mkpart(devPath, fs, MiB(from), MiB(to), rc)
       IN \E rc \in ExitCodes :
             /\ rc = 0 => CanCreate(tbl, TokenPos(MiB(from)), TokenPos(MiB(to)))
             /\ IF rc # 0
                THEN /\ Abort(<<c(rc)>>, msg)
                     /\ UNCHANGED <<table, kview>>
                ELSE /\ table' = [table EXCEPT ![selectedDrive] =
                                    Created(tbl, TokenPos(MiB(from)),
                                            TokenPos(MiB(to)))]
                     /\ kview' \in {[kview EXCEPT ![selectedDrive] = v] :
                                      v \in KernelViews(table'[selectedDrive],
                                                        kview[selectedDrive])}
                     /\ cmds' = cmds \o <<c(rc)>> \o SettleCmds(devPath)
                     /\ pc' = next
                     /\ UNCHANGED <<loc, signals>>
    /\ UNCHANGED <<request, sys, stateFile>>

\* a new 512 MiB ESP at the start of the extent
Free_Esp ==
    /\ pc = "free_esp"
    /\ MkpartStep("fat32", loc.startMiB, loc.startMiB + 512, "free_esp_detect",
                  "Failed to create ESP (free space).")

\* parted name <num> ESP and set <num> esp on, exit codes not looked at
NameAndFlagEsp(espNum, rcName, rcSet) ==
    LET n == StrToNat(espNum)
        t1 == IF rcName = 0 THEN Named(table[selectedDrive], n, ESPLabel)
              ELSE table[selectedDrive]
    IN IF rcSet = 0 THEN Flagged(t1, n, "esp") ELSE t1

\* the new ESP is the one new child; it is named and flagged
EspDetectStep(next) ==
    /\ LET espPart == detectNewPartitionNode(devPath, loc.before)
           espNum == partitionNumberFromPath(espPart)
       IN IF espPart = EmptyStr
          THEN /\ Abort(<<>>, "Could not uniquely detect new ESP.")
               /\ UNCHANGED table
          ELSE IF espNum = EmptyStr
          THEN /\ Abort(<<>>, "Could not determine ESP partition number.")
               /\ UNCHANGED table
          ELSE \E rcName, rcSet \in ExitCodes :
                  /\ StrToNat(espNum) \notin Nums(table[selectedDrive])
                        => rcName # 0 /\ rcSet # 0
                  /\ table' = [table EXCEPT ![selectedDrive] =
                                 NameAndFlagEsp(espNum, rcName, rcSet)]
                  /\ cmds' = cmds \o <<Name(devPath, espNum, ESPLabel, rcName),
                                       SetFlag(devPath, espNum, "esp", rcSet)>>
                  /\ loc' = [loc EXCEPT
                               !.espPart = espPart, !.createdNewEsp = TRUE,
                               !.before = childPartitionsSet(devPath),
                               !.rootStart = loc.startMiB + 512,
                               !.rootEnd = rootEnd(loc.endMiB)]
                  /\ pc' = next
                  /\ UNCHANGED signals
    /\ UNCHANGED <<request, kview, sys, stateFile>>

Free_EspDetect ==
    /\ pc = "free_esp_detect"
    /\ EspDetectStep("free_root")

\* the root partition over the rest of the extent, one MiB short of its end
Free_Root ==
    /\ pc = "free_root"
    /\ MkpartStep("ext4", loc.rootStart, loc.rootEnd, "free_root_detect",
                  "Failed to create root partition (free space).")

\* a variant that goes on with whatever the detection returned
RootDetectStep_Continue(next, msg) ==
    /\ loc' = [loc EXCEPT !.rootPart = detectNewPartitionNode(devPath, loc.before)]
    /\ pc' = next
    /\ UNCHANGED <<cmds, signals>>
    /\ UNCHANGED <<request, table, kview, sys, stateFile>>

\* the new root is the one new child
RootDetectStep(next, msg) ==
    /\ LET rootPart == detectNewPartitionNode(devPath, loc.before)
       IN IF rootPart = EmptyStr
          THEN Abort(<<>>, msg)
          ELSE /\ loc' = [loc EXCEPT !.rootPart = rootPart]
               /\ pc' = next
               /\ UNCHANGED <<cmds, signals>>
    /\ UNCHANGED <<request, table, kview, sys, stateFile>>

Free_RootDetect ==
    /\ pc = "free_root_detect"
    /\ RootDetectStep(IF loc.createdNewEsp THEN "free_mkfs_esp"
                      ELSE "free_mkfs_root",
                      "Could not uniquely detect new root partition.")

Free_MkfsEsp ==
    /\ pc = "free_mkfs_esp"
    /\ MkfsEsp("free_mkfs_root", "Failed to format new ESP.")

Free_MkfsRoot ==
    /\ pc = "free_mkfs_root"
    /\ MkfsRoot("free_mount", "Failed to format root.")

\* the mounts and installComplete; only the BIOS path looks at the exit
\* code of mount
Free_Mount ==
    /\ pc = "free_mount"
    /\ \E rcRoot, rcEsp \in ExitCodes :
          IF efiInstall
          THEN /\ cmds' = cmds \o <<Mount(loc.rootPart, "/mnt", rcRoot),
                                    Mkdir("/mnt/boot/efi"),
                                    Mount(loc.espPart, "/mnt/boot/efi", rcEsp)>>
               /\ signals' = Append(signals, installComplete(Len(cmds')))
               /\ pc' = "done"
               /\ UNCHANGED loc
          ELSE IF rcRoot # 0
          THEN Abort(<<Mount(loc.rootPart, "/mnt", rcRoot)>>,
                     "Failed to mount root at /mnt.")
          ELSE /\ cmds' = Append(cmds, Mount(loc.rootPart, "/mnt", rcRoot))
               /\ signals' = Append(signals, installComplete(Len(cmds')))
               /\ pc' = "done"
               /\ UNCHANGED loc
    /\ UNCHANGED <<request, table, kview, sys, stateFile>>

-----------------------------------------------------------------------------
(* UsePartition: recreateFromSelectedPartition.  The BIOS path without a
   bios_grub partition follows the complete copy of that block. *)

\* geometry, the ESP guard, then umount -l and parted rm of the target
\* a variant that does not compare the target with the existing ESP
Part_Begin_EspUnchecked ==
    /\ pc = "part_begin"
    /\ LET geo == getPartitionGeometry(targetPartition, selectedDrive)
           b == parseMiBToBounds(geo.startMiB, geo.endMiB, 0, 0)
           existingEsp == findExistingEsp(devPath)
           partNum == partitionNumberFromPath(targetPartition)
           tbl == table[selectedDrive]
       IN IF ~geo.ok
          THEN /\ Abort(<<>>, "Could not query selected partition geometry (parted).")
               /\ UNCHANGED <<table, kview>>
          ELSE IF ~b.ok
          THEN /\ Abort(<<>>, "Invalid geometry for selected partition.")
               /\ UNCHANGED <<table, kview>>
          ELSE IF FALSE
          THEN /\ Abort(<<>>, "Selected partition is the EFI System Partition. Please choose a different partition for root.")
               /\ UNCHANGED <<table, kview>>
          ELSE IF partNum = EmptyStr
          THEN /\ Abort(<<UmountNode(targetPartition)>>,
                        "Could not determine selected partition number.")
               /\ UNCHANGED <<table, kview>>
          ELSE \E rc \in ExitCodes :
                  /\ rc = 0 => StrToNat(partNum) \in Nums(tbl)
                  /\ IF rc # 0
                     THEN /\ Abort(<<UmountNode(targetPartition),
                                     Rm(devPath, partNum, rc)>>,
                                   "Failed to delete selected partition.")
                          /\ UNCHANGED <<table, kview>>
                     ELSE /\ table' = [table EXCEPT ![selectedDrive] =
                                         Removed(tbl, StrToNat(partNum))]
                          /\ kview' \in
                               {[kview EXCEPT ![selectedDrive] = v] :
                                  v \in KernelViews(table'[selectedDrive],
                                                    kview[selectedDrive])}
                          /\ cmds' = cmds \o <<UmountNode(targetPartition),
                                               Rm(devPath, partNum, rc)>>
                                          \o SettleCmds(devPath)
                          /\ loc' = [loc EXCEPT !.startMiB = b.startMiB,
                                                !.endMiB = b.endMiB]
                          /\ pc' = "part_after_rm"
                          /\ UNCHANGED signals
    /\ UNCHANGED <<request, sys, stateFile>>

Part_Begin ==
    /\ pc = "part_begin"
    /\ LET geo == getPartitionGeometry(targetPartition, selectedDrive)
           b == parseMiBToBounds(geo.startMiB, geo.endMiB, 0, 0)
           existingEsp == findExistingEsp(devPath)
           partNum == partitionNumberFromPath(targetPartition)
           tbl == table[selectedDrive]
       IN IF ~geo.ok
          THEN /\ Abort(<<>>, "Could not query selected partition geometry (parted).")
               /\ UNCHANGED <<table, kview>>
          ELSE IF ~b.ok
          THEN /\ Abort(<<>>, "Invalid geometry for selected partition.")
               /\ UNCHANGED <<table, kview>>
          ELSE IF /\ efiInstall /\ existingEsp # EmptyStr
                  /\ canonicalFilePath(targetPartition)
                        = canonicalFilePath(existingEsp)
          THEN /\ Abort(<<>>, "Selected partition is the EFI System Partition. Please choose a different partition for root.")
               /\ UNCHANGED <<table, kview>>
          ELSE IF partNum = EmptyStr
          THEN /\ Abort(<<UmountNode(targetPartition)>>,
                        "Could not determine selected partition number.")
               /\ UNCHANGED <<table, kview>>
          ELSE \E rc \in ExitCodes :
                  /\ rc = 0 => StrToNat(partNum) \in Nums(tbl)
                  /\ IF rc # 0
                     THEN /\ Abort(<<UmountNode(targetPartition),
                                     Rm(devPath, partNum, rc)>>,
                                   "Failed to delete selected partition.")
                          /\ UNCHANGED <<table, kview>>
                     ELSE /\ table' = [table EXCEPT ![selectedDrive] =
                                         Removed(tbl, StrToNat(partNum))]
                          /\ kview' \in
                               {[kview EXCEPT ![selectedDrive] = v] :
                                  v \in KernelViews(table'[selectedDrive],
                                                    kview[selectedDrive])}
                          /\ cmds' = cmds \o <<UmountNode(targetPartition),
                                               Rm(devPath, partNum, rc)>>
                                          \o SettleCmds(devPath)
                          /\ loc' = [loc EXCEPT !.startMiB = b.startMiB,
                                                !.endMiB = b.endMiB]
                          /\ pc' = "part_after_rm"
                          /\ UNCHANGED signals
    /\ UNCHANGED <<request, sys, stateFile>>

\* the choice of a strategy after the deletion
Part_AfterRm ==
    /\ pc = "part_after_rm"
    /\ LET existingEsp == findExistingEsp(devPath)
           existingBios == findExistingBiosGrub(devPath)
           reuse == IF efiInstall THEN existingEsp # EmptyStr
                    ELSE existingBios # EmptyStr
           biosEndMiB == loc.startMiB + 2
       IN IF ~efiInstall /\ ~reuse /\ biosEndMiB >= loc.endMiB
          THEN Abort(<<>>, "Selected partition is too small to host bios_grub and root partitions.")
          ELSE /\ loc' = [loc EXCEPT
                            !.before = childPartitionsSet(devPath),
                            !.rootStart = loc.startMiB,
                            !.rootEnd = rootEnd(loc.endMiB),
                            !.espPart = IF efiInstall THEN existingEsp
                                        ELSE EmptyStr,
                            !.reuseEsp = efiInstall /\ reuse]
               /\ pc' = IF reuse THEN "part_root"
                        ELSE IF efiInstall THEN "part_esp" ELSE "part_bios"
               /\ UNCHANGED <<cmds, signals>>
    /\ UNCHANGED <<request, table, kview, sys, stateFile>>

\* a new 512 MiB ESP at the start of the freed range
Part_Esp ==
    /\ pc = "part_esp"
    /\ MkpartStep("fat32", loc.startMiB, loc.startMiB + 512, "part_esp_detect",
                  "Failed to create ESP (existing partition).")

Part_EspDetect ==
    /\ pc = "part_esp_detect"
    /\ EspDetectStep("part_root")

\* a new 2 MiB bios_grub partition at the start of the freed range
Part_Bios ==
    /\ pc = "part_bios"
    /\ MkpartStep("", loc.startMiB, loc.startMiB + 2, "part_bios_detect",
                  "Failed to create bios_grub partition.")

\* the new bios_grub partition is the one new child; it is flagged, and the
\* rest of the range must leave room for root
Part_BiosDetect ==
    /\ pc = "part_bios_detect"
    /\ LET biosPart == detectNewPartitionNode(devPath, loc.before)
           biosNum == partitionNumberFromPath(biosPart)
           rootStartMiB == loc.startMiB + 2
           tbl == table[selectedDrive]
       IN IF biosPart = EmptyStr
          THEN /\ Abort(<<>>, "Could not detect newly created bios_grub partition.")
               /\ UNCHANGED table
          ELSE IF biosNum = EmptyStr
          THEN /\ Abort(<<>>, "Could not determine bios_grub partition number.")
               /\ UNCHANGED table
          ELSE \E rc \in ExitCodes :
                  LET c == SetFlag(devPath, biosNum, "bios_grub", rc)
                  IN /\ rc = 0 => StrToNat(biosNum) \in Nums(tbl)
                     /\ IF rc # 0
                        THEN /\ Abort(<<c>>, "Failed to flag bios_grub partition.")
                             /\ UNCHANGED table
                        ELSE /\ table' = [table EXCEPT ![selectedDrive] =
                                   Flagged(tbl, StrToNat(biosNum), "bios_grub")]
                             /\ IF loc.endMiB <= rootStartMiB + 1
                                THEN Abort(<<c>>, "Remaining space after bios_grub is insufficient for root partition.")
                                ELSE /\ cmds' = Append(cmds, c)
                                     /\ loc' = [loc EXCEPT
                                          !.before = childPartitionsSet(devPath),
                                          !.rootStart = rootStartMiB,
                                          !.rootEnd = rootEnd(loc.endMiB)]
                                     /\ pc' = "part_root"
                                     /\ UNCHANGED signals
    /\ UNCHANGED <<request, kview, sys, stateFile>>

\* the root partition over the rest of the freed range, one MiB short of
\* its end
Part_Root ==
    /\ pc = "part_root"
    /\ MkpartStep("ext4", loc.rootStart, loc.rootEnd, "part_root_detect",
                  "Failed to create root (existing partition).")

Part_RootDetect ==
    /\ pc = "part_root_detect"
    /\ RootDetectStep(IF loc.createdNewEsp THEN "part_mkfs_esp"
                      ELSE "part_mkfs_root",
                      "Could not uniquely detect new root partition.")

Part_MkfsEsp ==
    /\ pc = "part_mkfs_esp"
    /\ MkfsEsp("part_mkfs_root", "Failed to format ESP.")

Part_MkfsRoot ==
    /\ pc = "part_mkfs_root"
    /\ MkfsRoot("part_mount", "Failed to format root.")

\* the mounts, the mount-state file and installComplete; a failed mount of
\* root or of a reused ESP ends the run, that of a new ESP does not
Part_Mount ==
    /\ pc = "part_mount"
    /\ \E rcRoot, rcEsp \in ExitCodes :
          LET mRoot == Mount(loc.rootPart, "/mnt", rcRoot)
              mEsp == Mount(loc.espPart, "/mnt/boot/efi", rcEsp)
          IN IF rcRoot # 0
             THEN /\ Abort(<<mRoot>>, "Failed to mount root at /mnt.")
                  /\ UNCHANGED stateFile
             ELSE IF efiInstall /\ loc.reuseEsp /\ rcEsp # 0
             THEN /\ Abort(<<mRoot, Mkdir("/mnt/boot/efi"), mEsp>>,
                           "Failed to mount existing ESP at /mnt/boot/efi.")
                  /\ UNCHANGED stateFile
             ELSE /\ cmds' = cmds \o <<mRoot>>
                             \o (IF efiInstall
                                 THEN <<Mkdir("/mnt/boot/efi"), mEsp>>
                                 ELSE <<>>)
                  /\ stateFile' = recordTargetMountState(loc.rootPart,
                                      IF efiInstall THEN loc.espPart
                                      ELSE EmptyStr)
                  /\ signals' = Append(signals, installComplete(Len(cmds')))
                  /\ pc' = "done"
                  /\ UNCHANGED loc
    /\ UNCHANGED <<request, table, kview, sys>>

-----------------------------------------------------------------------------
(* bestEffortDetachDevice, the detach routine of wipeDriveAndPartition.
   The sources hold no call of wipeDriveAndPartition; the routine is
   modelled as an operation of its own. *)

UdisksUnmount(node) == [cmd |-> "udisksctl unmount", node |-> node]

Swapoff(node) == [cmd |-> "swapoff", node |-> node]

CryptsetupClose(node) == [cmd |-> "cryptsetup close", node |-> node]

VgchangeOff(group) == [cmd |-> "vgchange -an", vg |-> group]

FuserKill(node) == [cmd |-> "fuser -km", node |-> node]

DmsetupRemove(holder) == [cmd |-> "dmsetup remove", holder |-> holder]

BlockdevReread(dev) == [cmd |-> "blockdev --rereadpt", dev |-> dev]

UdisksPowerOff(dev) == [cmd |-> "udisksctl power-off", dev |-> dev]

\* QString::contains
contains(hay, needle) ==
    \E i \in 0..(Len(hay) - Len(needle)) :
        SubSeq(hay, i + 1, i + Len(needle)) = needle

\* the lines of /proc/swaps: the nodes of the active swap partitions
ProcSwaps ==
    UNION {{Dev(KernelPartName(d, p.num)) :
              p \in {q \in table[d] : q.mp = "[SWAP]" /\ q.num \in kview[d]}} :
           d \in Disks}

\* the volume group lvs names for a logical volume
VgName == "vg0"

\* the commands of bestEffortDetachDevice(path); the set of children is
\* walked in the order of lsblk's rows; lvsAnswers tells whether lvs prints
\* the volume group of a node it is asked about
bestEffortDetachDevice(path, lvsAnswers) ==
    LET staging == <<Umount("-Rl", "/mnt/boot/efi"), Umount("-Rl", "/mnt/boot"),
                     Umount("-Rl", "/mnt")>>
        set == childPartitionsSet(path)
        rows == LsblkAll
        full == SelectSeq(rows, LAMBDA r : Len(r) >= 3)
        parts == [i \in 1..Len(SelectSeq(full,
                        LAMBDA r : r[2] = T_part /\ r[1] \in set)) |->
                     SelectSeq(full, LAMBDA r : r[2] = T_part /\ r[1] \in set)[i][1]]
        swapped == SelectSeq(parts,
                     LAMBDA pn : \E l \in ProcSwaps : contains(l, Dev(pn)))
        luks == SelectSeq(full, LAMBDA r : r[2] = T_crypt /\ r[3] \in set)
        lvs == SelectSeq(full, LAMBDA r : r[2] \in {T_lvm, T_dm} /\ r[3] \in set)
        holders == SelectSeq(LayerOrder,
                     LAMBDA k : \E x \in sys.layers : x.kname = k /\ x.pk \in set)
        killed == <<path>> \o [i \in 1..Len(parts) |-> Dev(parts[i])]
    IN IF isSystemDisk(path) THEN staging \o <<UdevadmSettle>>
       ELSE staging
            \o [i \in 1..Len(parts) |-> UdisksUnmount(Dev(parts[i]))]
            \o [i \in 1..Len(swapped) |-> Swapoff(Dev(swapped[i]))]
            \o [i \in 1..Len(luks) |-> CryptsetupClose(Dev(luks[i][1]))]
            \o (IF lvs # <<>> /\ lvsAnswers THEN <<VgchangeOff(VgName)>> ELSE <<>>)
            \o [i \in 1..Len(killed) |-> FuserKill(killed[i])]
            \o [i \in 1..Len(holders) |-> DmsetupRemove(holders[i])]
            \o <<BlockdevReread(path), Partprobe(path), UdevadmSettle, Sleep1,
                 UdisksPowerOff(path)>>

\* bestEffortDetachDevice(devPath): the kernel re-reads the table, and the
\* mappings found on the disk are closed or stay
BestEffortDetachDevice ==
    /\ pc = "idle" /\ fnCall.fn = "bestEffortDetachDevice"
    /\ \E lvsAnswers \in BOOLEAN :
          cmds' = cmds \o bestEffortDetachDevice(devPath, lvsAnswers)
    /\ IF isSystemDisk(devPath) THEN UNCHANGED <<kview, sys>>
       ELSE /\ kview' \in {[kview EXCEPT ![selectedDrive] = v] :
                             v \in KernelViews(table[selectedDrive],
                                               kview[selectedDrive])}
            /\ \E closed \in BOOLEAN :
                  sys' = IF closed
                         THEN [sys EXCEPT !.layers =
                                 {x \in @ : DiskOfKName(x.kname, Len(LayerOrder))
                                               # selectedDrive}]
                         ELSE sys
    /\ pc' = "done"
    /\ UNCHANGED <<request, loc, signals, table, stateFile>>

Next ==
    \/ Run_Begin \/ BestEffortDetachDevice
    \/ Wipe_Mklabel \/ Wipe_First \/ Wipe_Root \/ Wipe_Detect
    \/ Wipe_MkfsEsp \/ Wipe_MkfsRoot \/ Wipe_Mount
    \/ Free_Begin \/ Free_Esp \/ Free_EspDetect \/ Free_Root \/ Free_RootDetect
    \/ Free_MkfsEsp \/ Free_MkfsRoot \/ Free_Mount
    \/ Part_Begin \/ Part_AfterRm \/ Part_Esp \/ Part_EspDetect
    \/ Part_Bios \/ Part_BiosDetect \/ Part_Root \/ Part_RootDetect
    \/ Part_MkfsEsp \/ Part_MkfsRoot \/ Part_Mount

Spec == Init /\ [][Next]_vars

-----------------------------------------------------------------------------
(* The wizard: its buttons start one InstallerWorker thread per click *)

MaxWorkers == 2

\* table commands one run is followed through
MaxMutations == 2

Erase == "Erase entire drive"

UseSelected == "Use selected partition"

UseFree == "Use free space"

ModeTexts == {Erase, UseSelected, UseFree}

\* the rows of the partition tree a user can select
FreeItem == [type |-> "free", startMiB |-> 1200 * Scale, endMiB |-> 1500 * Scale]

PartItems == {[type |-> "part", path |-> Dev(KernelPartName(d, 1))] : d \in Disks}

TreeItems == {FreeItem} \cup PartItems

\* the text of the drive dropdown without its /dev/ prefix; NoDisk when
\* the dropdown is empty or shows "No drives found"
DropdownDrives == Disks \cup {NoDisk}

workerVars == <<fnCall, fnRet, selectedDrive, mode, targetPartition,
                efiInstall, pc, loc, cmds, signals, table, kview, sys,
                stateFile>>

InitWizard ==
    /\ RunIdle
    /\ fnCall = [fn |-> "Installwizard"] /\ fnRet = NotReturned
    /\ kview = [d \in Disks |-> {}] /\ sys = SysLive
    /\ \E d \in Disks : wiz = [NoWizard EXCEPT !.selectedDrive = d]

OnPartitionSelected ==
    /\ fnCall.fn = "Installwizard"
    /\ \E it \in TreeItems :
          wiz' = [wiz EXCEPT !.item = it,
                             !.targetPartition =
                                 IF it.type = "free" THEN EmptyStr ELSE it.path]
    /\ UNCHANGED workerVars

\* lsblk -nr -o PKNAME: the parent disk of a partition node
PKNAME(partition) ==
    LET ds == {d \in Disks :
                 \E n \in 1..MaxParts : partition = Dev(KernelPartName(d, n))}
    IN IF ds = {} THEN EmptyStr ELSE CHOOSE d \in ds : TRUE

getParentDrive(wz, partition, lsblkAnswers) ==
    LET parent == IF lsblkAnswers THEN PKNAME(partition) ELSE EmptyStr
    IN IF parent = EmptyStr THEN wz.selectedDrive ELSE parent

\* new InstallerWorker with its setters called, moved to a new QThread
\* that is started
startWorker(wz, drive, m, target) ==
    [wz EXCEPT !.workers =
        Append(@, [drive |-> drive, mode |-> m, targetPartition |-> target,
                   efiInstall |-> wz.efiInstall, st |-> "started",
                   issued |-> 0])]

\* the confirmation dialog: the button the user answers it with; dialog
\* is "none" as long as a click has shown no such dialog
confirmDestructive(wz, confirm) ==
    [wz EXCEPT !.dialog = IF confirm THEN "Yes" ELSE "No"]

\* a variant that goes on after the answer No
prepareDrive_NoIgnored(wz, drive, selectedMode, confirm) ==
    LET w0 == [wz EXCEPT !.selectedDrive = drive]
    IN IF selectedMode = Erase
       THEN startWorker(confirmDestructive(w0, confirm), drive, "WipeDrive",
                        EmptyStr)
       ELSE IF selectedMode = UseSelected
       THEN startWorker(w0, drive, "UsePartition", w0.targetPartition)
       ELSE LET it == w0.item
            IN IF /\ it.type = "free"
                  /\ it.startMiB > 0 /\ it.endMiB > it.startMiB
               THEN startWorker(w0, drive, "UseFreeSpace",
                                FreeToken(it.startMiB, it.endMiB))
               ELSE startWorker(w0, drive, "UseFreeSpace", EmptyStr)

prepareDrive(wz, drive, selectedMode, confirm) ==
    LET w0 == [wz EXCEPT !.selectedDrive = drive]
    IN IF selectedMode = Erase
       THEN IF ~confirm THEN confirmDestructive(w0, confirm)
            ELSE startWorker(confirmDestructive(w0, confirm), drive,
                             "WipeDrive", EmptyStr)
       ELSE IF selectedMode = UseSelected
       THEN startWorker(w0, drive, "UsePartition", w0.targetPartition)
       ELSE LET it == w0.item
            IN IF /\ it.type = "free"
                  /\ it.startMiB > 0 /\ it.endMiB > it.startMiB
               THEN startWorker(w0, drive, "UseFreeSpace",
                                FreeToken(it.startMiB, it.endMiB))
               ELSE startWorker(w0, drive, "UseFreeSpace", EmptyStr)

prepareExistingPartition(wz, partition, lsblkAnswers, confirm) ==
    LET w0 == [wz EXCEPT !.selectedDrive =
                   getParentDrive(wz, partition, lsblkAnswers)]
    IN IF ~confirm THEN confirmDestructive(w0, confirm)
       ELSE startWorker(confirmDestructive(w0, confirm), w0.selectedDrive,
                        "UsePartition", partition)

prepareForEfi(wz, drive, selectedMode, lsblkAnswers, confirm) ==
    LET w0 == [wz EXCEPT !.efiInstall = TRUE]
    IN IF selectedMode = UseSelected
       THEN IF w0.targetPartition = EmptyStr \/ w0.targetPartition = DevPrefix
            THEN w0
            ELSE prepareExistingPartition(w0, w0.targetPartition,
                                          lsblkAnswers, confirm)
       ELSE prepareDrive(w0, drive, selectedMode, confirm)

\* a click starts a thread; the model stops clicking at MaxWorkers threads
ClickPrepareButton ==
    /\ fnCall.fn = "Installwizard"
    /\ Len(wiz.workers) < MaxWorkers
    /\ \E selectedMode \in ModeTexts, drive \in DropdownDrives,
          lsblkAnswers, confirm \in BOOLEAN :
          wiz' = IF selectedMode = UseSelected
                 THEN IF \/ wiz.targetPartition = EmptyStr
                         \/ wiz.targetPartition = DevPrefix
                      THEN wiz
                      ELSE prepareExistingPartition(
                               [wiz EXCEPT !.efiInstall = FALSE,
                                           !.dialog = "none"],
                               wiz.targetPartition, lsblkAnswers, confirm)
                 ELSE IF drive = NoDisk THEN wiz
                 ELSE prepareDrive([wiz EXCEPT !.efiInstall = FALSE,
                                               !.dialog = "none"],
                                   drive, selectedMode, confirm)
    /\ UNCHANGED workerVars

ClickCreatePartButton ==
    /\ fnCall.fn = "Installwizard"
    /\ Len(wiz.workers) < MaxWorkers
    /\ \E selectedMode \in ModeTexts, drive \in DropdownDrives,
          lsblkAnswers, confirm \in BOOLEAN :
          wiz' = IF drive = NoDisk THEN wiz
                 ELSE prepareForEfi([wiz EXCEPT !.efiInstall = TRUE,
                                                !.dialog = "none"], drive,
                                    selectedMode, lsblkAnswers, confirm)
    /\ UNCHANGED workerVars

setSt(i, st) == [wiz EXCEPT !.workers[i].st = st]

\* QThread::started calls InstallerWorker::run on the worker's thread
Worker_Started ==
    /\ \E i \in DOMAIN wiz.workers :
          /\ wiz.workers[i].st = "started"
          /\ wiz' = setSt(i, "running")
    /\ UNCHANGED workerVars

\* run() calls QProcess::execute on a parted command that changes the
\* table of /dev/<drive>, and blocks until the command exits
Worker_Mutate ==
    /\ \E i \in DOMAIN wiz.workers :
          /\ wiz.workers[i].st = "running"
          /\ wiz.workers[i].issued < MaxMutations
          /\ wiz' = [wiz EXCEPT !.workers[i].st = "mutating",
                                !.workers[i].issued = @ + 1]
    /\ UNCHANGED workerVars

Worker_CommandExit ==
    /\ \E i \in DOMAIN wiz.workers :
          /\ wiz.workers[i].st = "mutating"
          /\ wiz' = setSt(i, "running")
    /\ UNCHANGED workerVars

\* run() emits installComplete and returns: the thread quits
Worker_Complete ==
    /\ \E i \in DOMAIN wiz.workers :
          /\ wiz.workers[i].st = "running"
          /\ wiz' = setSt(i, "complete")
    /\ UNCHANGED workerVars

\* run() emits errorOccurred and returns
Worker_Failed ==
    /\ \E i \in DOMAIN wiz.workers :
          /\ wiz.workers[i].st = "running"
          /\ wiz' = setSt(i, "failed")
    /\ UNCHANGED workerVars

\* installComplete is connected to QThread::quit and to the worker's
\* deleteLater, QThread::finished to the thread's deleteLater: the thread
\* leaves its event loop and both objects are released
Thread_Quit ==
    /\ \E i \in DOMAIN wiz.workers :
          /\ wiz.workers[i].st = "complete"
          /\ wiz' = setSt(i, "released")
    /\ UNCHANGED workerVars

NextWizard ==
    \/ OnPartitionSelected
    \/ ClickPrepareButton \/ ClickCreatePartButton
    \/ Worker_Started \/ Worker_Mutate \/ Worker_CommandExit
    \/ Worker_Complete \/ Worker_Failed
    \/ Thread_Quit

SpecWizard == InitWizard /\ [][NextWizard]_vars

\* a started thread calls run(), a command exits, run() returns, and a
\* queued call of a slot is delivered
SpecWizardLive ==
    /\ SpecWizard
    /\ WF_vars(Worker_Started)
    /\ WF_vars(Worker_CommandExit)
    /\ WF_vars(Worker_Complete \/ Worker_Failed)
    /\ WF_vars(Thread_Quit)

-----------------------------------------------------------------------------
(* Properties of the helpers, checked under SpecFn *)

Applied(f) == fnCall.fn = f /\ fnRet.done

\* C2: detectNewPartitionNode(disk, before) returns "/dev/" + x exactly when
\* the disk's current child partition names minus before is the singleton
\* {x}, and the empty string when that difference has no or several names.
C2_DetectSingleton ==
    Applied("detectNewPartitionNode") =>
        LET d == mid(fnCall.devPath, 5)
            current == {KernelPartName(d, n) : n \in kview[d]}
            diff == current \ fnCall.before
        IN /\ \A x \in diff : diff = {x} => fnRet.v = Dev(x)
           /\ Cardinality(diff) # 1 => fnRet.v = EmptyStr

C2_Witness ==
    /\ Applied("detectNewPartitionNode")
    /\ fnCall.devPath = Dev(nvme0n1)
    /\ kview[nvme0n1] = {1, 2, 3}
    /\ fnCall.before = {KernelPartName(nvme0n1, 1), KernelPartName(nvme0n1, 3)}
    /\ fnRet.v = Dev(KernelPartName(nvme0n1, 2))

\* the smallest whole number of MiB not below h hundredths, and the largest
\* not above it
CeilMiB(h) == CHOOSE n \in 0..(MaxMiB + 2) : Scale * n >= h /\ Scale * (n - 1) < h

FloorMiB(h) == CHOOSE n \in 0..(MaxMiB + 2) : Scale * n <= h /\ Scale * (n + 1) > h

ValidRange ==
    /\ Applied("parseMiBToBounds")
    /\ fnCall.startStr.valid /\ fnCall.endStr.valid
    /\ fnCall.startStr.val < fnCall.endStr.val

ExpectedStart ==
    IF CeilMiB(fnCall.startStr.val) < 1 THEN 1 ELSE CeilMiB(fnCall.startStr.val)

\* C4 as stated: for every pair of valid decimal MiB texts with start < end,
\* parseMiBToBounds succeeds with startMiB = max(1, ceil(start)),
\* endMiB = floor(end) and startMiB <= endMiB.
C4_SucceedsOnEveryRange ==
    ValidRange =>
        /\ fnRet.v.ok
        /\ fnRet.v.startMiB = ExpectedStart
        /\ fnRet.v.endMiB = FloorMiB(fnCall.endStr.val)
        /\ fnRet.v.startMiB <= fnRet.v.endMiB

\* C4 amended: for every pair of valid decimal MiB texts with start < end,
\* parseMiBToBounds computes startMiB = max(1, ceil(start)) and
\* endMiB = floor(end), and it succeeds exactly when startMiB < endMiB (a
\* range holding no whole MiB, such as 1.50 to 1.99, is refused).
C4_BoundsAndStrictRange ==
    ValidRange =>
        /\ fnRet.v.startMiB = ExpectedStart
        /\ fnRet.v.endMiB = FloorMiB(fnCall.endStr.val)
        /\ fnRet.v.ok <=> (ExpectedStart < FloorMiB(fnCall.endStr.val))

C4_Witness ==
    /\ ValidRange
    /\ fnCall.startStr.str = <<"0", ",", "5", "0">>
    /\ fnCall.endStr.str = <<"2", ".", "9", "9">> \o MiBSuffix
    /\ fnRet.v = [ok |-> TRUE, startMiB |-> 1, endMiB |-> 2]

\* C5: isSystemDisk(disk) is true exactly when disk and the root source both
\* resolve, through the parent chain, to the same disk; it is false when the
\* root source is empty or either resolution fails, and it is never true
\* for a disk other than the one that backs "/".
C5_IsSystemDisk ==
    Applied("isSystemDisk") =>
        LET rootSrc == rootSourceDevice
            same == /\ sys.lsblkOk
                    /\ rootSrc # EmptyStr
                    /\ BackingDisk(rootSrc) # NoDisk
                    /\ BackingDisk(fnCall.devPath) # NoDisk
                    /\ BackingDisk(rootSrc) = BackingDisk(fnCall.devPath)
        IN /\ fnRet.v <=> same
           /\ fnRet.v => /\ sys.rootDisk # NoDisk
                         /\ BackingDisk(fnCall.devPath) = sys.rootDisk

C5_Witness ==
    /\ Applied("isSystemDisk")
    /\ sys = SysOn(nvme0n1, "lvm")
    /\ fnCall.devPath = Dev(nvme0n1)
    /\ fnRet.v = TRUE

\* C8: partitionNodeFor(baseName, n) is "/dev/" + baseName + "p" + n when
\* baseName is not empty and ends in a digit, "/dev/" + baseName + n
\* otherwise, n written in decimal.
C8_PartitionNodeFor ==
    Applied("partitionNodeFor") =>
        LET b == fnCall.baseName
            r == fnRet.v
            sep == IF b # EmptyStr /\ b[Len(b)] \in Digits THEN 1 ELSE 0
            numText == SubSeq(r, Len(DevPrefix) + Len(b) + sep + 1, Len(r))
        IN /\ SubSeq(r, 1, Len(DevPrefix)) = DevPrefix
           /\ SubSeq(r, Len(DevPrefix) + 1, Len(DevPrefix) + Len(b)) = b
           /\ sep = 1 => r[Len(DevPrefix) + Len(b) + 1] = "p"
           /\ numText # EmptyStr /\ AllDigits(numText)
           /\ StrToNat(numText) = fnCall.partNum
           /\ Len(numText) > 1 => numText[1] # "0"

C8_Witness ==
    /\ Applied("partitionNodeFor")
    /\ fnCall.baseName = nvme0n1 /\ fnCall.partNum = 2
    /\ fnRet.v = DevPrefix \o nvme0n1 \o <<"p", "2">>

\* C9: partitionNumberFromPath(path) is the maximal run of digits at the end
\* of the last '/'-separated component of path, and is empty exactly when
\* that component does not end in a digit.
C9_TrailingDigits ==
    Applied("partitionNumberFromPath") =>
        LET p == fnCall.partPath
            k == CHOOSE i \in 0..Len(p) :
                    /\ i = 0 \/ p[i] = "/"
                    /\ \A j \in (i + 1)..Len(p) : p[j] # "/"
            comp == SubSeq(p, k + 1, Len(p))
            r == fnRet.v
        IN /\ AllDigits(r)
           /\ Len(r) <= Len(comp)
           /\ SubSeq(comp, Len(comp) - Len(r) + 1, Len(comp)) = r
           /\ Len(r) < Len(comp) => ~isDigit(comp[Len(comp) - Len(r)])
           /\ r = EmptyStr <=> (comp = EmptyStr \/ ~isDigit(comp[Len(comp)]))

C9_Witness ==
    /\ Applied("partitionNumberFromPath")
    /\ fnCall.partPath = Dev(KernelPartName(nvme0n1, 11))
    /\ fnRet.v = <<"1", "1">>


-----------------------------------------------------------------------------
(* Properties of the runs, checked under Spec *)

completed ==
    \E i \in 1..Len(signals) : signals[i].sig = "installComplete"

Destructive == {"fuser -km", "swapoff", "cryptsetup close", "vgchange -an"}

\* C1: when the selected disk holds the running root filesystem, neither a
\* run nor a detach routine issues fuser -km, swapoff, cryptsetup close or
\* vgchange -an, whatever the device queries return
C1_SystemDiskUntouched ==
    sys.rootDisk = selectedDrive =>
        \A i \in 1..Len(cmds) : cmds[i].cmd \notin Destructive

DetectPcs ==
    {"free_esp_detect", "free_root_detect", "part_esp_detect",
     "part_bios_detect", "part_root_detect"}

DetectMsgs ==
    {"Could not uniquely detect new ESP.",
     "Could not uniquely detect new root partition.",
     "Could not detect newly created bios_grub partition."}

\* the names that appeared since the snapshot taken before mkpart
newChildren == childPartitionsSet(devPath) \ loc.before

\* C3: in UsePartition and UseFreeSpace, when the names that appeared after
\* a mkpart are not exactly one, the run emits errorOccurred at once; an
\* errorOccurred is the last thing a run does, so no mkfs, no mount and no
\* installComplete follows it
C3_AmbiguousDiffAborts ==
    /\ [][(pc \in DetectPcs /\ Cardinality(newChildren) # 1)
            => /\ pc' = "done"
               /\ cmds' = cmds
               /\ signals' = Append(signals,
                     errorOccurred(signals'[Len(signals')].msg, Len(cmds)))
               /\ signals'[Len(signals')].msg \in DetectMsgs]_vars
    /\ [](\A i \in 1..Len(signals) :
             signals[i].sig = "errorOccurred"
                => /\ pc = "done"
                   /\ i = Len(signals)
                   /\ signals[i].at = Len(cmds))

C3_Witness ==
    /\ mode \in {"UsePartition", "UseFreeSpace"}
    /\ pc = "done" /\ Len(signals) = 1
    /\ signals[1].sig = "errorOccurred" /\ signals[1].msg \in DetectMsgs
    /\ Cardinality(newChildren) >= 2
    /\ \E i \in 1..Len(cmds) : cmds[i].cmd = "mkpart" /\ cmds[i].rc = 0

\* C6: a completed WipeDrive run in EFI mode has made partition 1 over
\* 1 MiB to 513 MiB as fat32, named ESP and flagged esp, and partition 2
\* over 513 MiB to one MiB before the end of the disk as ext4
C6_WipeEfiLayout ==
    (fnCall.fn = "run" /\ mode = "WipeDrive" /\ efiInstall /\ completed)
        => /\ \E i \in 1..Len(cmds) :
                 /\ cmds[i].cmd = "mkpart" /\ cmds[i].fs = "fat32"
                 /\ TokenPos(cmds[i].start) = Scale * 1
                 /\ TokenPos(cmds[i].end) = Scale * 513
           /\ \E i \in 1..Len(cmds) : cmds[i] = Name(devPath, <<"1">>, ESPLabel, 0)
           /\ \E i \in 1..Len(cmds) : cmds[i] = SetFlag(devPath, <<"1">>, "esp", 0)
           /\ \E i \in 1..Len(cmds) :
                 /\ cmds[i].cmd = "mkpart" /\ cmds[i].fs = "ext4"
                 /\ TokenPos(cmds[i].start) = Scale * 513
                 /\ TokenPos(cmds[i].end) = Scale * (DiskSizeMiB - 1)

\* free extents of the layouts whose bounds are whole numbers of MiB
WholeExtents ==
    {x \in UNION {FreeExtents(l) : l \in Layouts} :
        x.start > 0 /\ x.start % Scale = 0 /\ x.end % Scale = 0}

BiosFreeRun(x) ==
    /\ fnCall.fn = "run" /\ mode = "UseFreeSpace" /\ ~efiInstall
    /\ targetPartition = FreeToken(x.start, x.end)
    /\ completed

C10_NoRmForWholeDisk ==
    (fnCall.fn = "run" /\ mode = "UsePartition"
     /\ targetPartition \in {Dev(d) : d \in Disks})
        => \A i \in 1..Len(cmds) : cmds[i].cmd # "rm"


Mutations == {"mklabel", "mkpart", "rm", "set", "name"}

isUnmountOf(c, node) ==
    \/ c = UmountNode(node)
    \/ c = UdisksUnmount(node)

\* mountpoints of the model under /media/, /run/media/ or /mnt/
ExternalMounts == {"/media/usb", "/run/media/usb", "/mnt/usb"}

\* the nodes of the selected disk's partitions that are mounted at an
\* external mountpoint
externalNodes ==
    {Dev(KernelPartName(selectedDrive, p.num)) :
        p \in {q \in table[selectedDrive] : q.mp \in ExternalMounts}}

noMutationIn(cs) == \A i \in 1..Len(cs) : cs[i].cmd \notin Mutations

\* C11: against a disk that is not the system disk (and whose partitions
\* lsblk lists), the first step of a run or of the detach routine issues an
\* unmount for the node of every partition mounted at an external
\* mountpoint and no partition-table mutation; commands are only appended
\* afterwards, so every mutation of the run comes after those unmounts
C11_ExternalUnmountedFirst ==
    /\ [][(pc = "idle" /\ sys.rootDisk # selectedDrive /\ sys.lsblkOk)
            => /\ cmds = <<>>
               /\ noMutationIn(cmds')
               /\ \/ cmds' = <<>> /\ pc' = "done"
                  \/ \A node \in externalNodes :
                        \E i \in 1..Len(cmds') : isUnmountOf(cmds'[i], node)]_vars
    /\ [][/\ Len(cmds') >= Len(cmds)
          /\ SubSeq(cmds', 1, Len(cmds)) = cmds]_vars

C11_Witness ==
    /\ sys.rootDisk # selectedDrive /\ sys.lsblkOk
    /\ \E i, j \in 1..Len(cmds) :
          /\ i < j
          /\ isUnmountOf(cmds[i], Dev(KernelPartName(selectedDrive, 3)))
          /\ cmds[j].cmd \in Mutations


\* C12: whenever a run has emitted installComplete, the mount-state file
\* exists with key root equal to the device whose mount at /mnt succeeded
\* and, in EFI mode, key esp equal to the device whose mount at
\* /mnt/boot/efi succeeded
C12_StateWrittenAtCompletion ==
    (fnCall.fn = "run" /\ completed)
        => /\ stateFile.exists
           /\ \E i \in 1..Len(cmds) : cmds[i] = Mount(stateFile.root, "/mnt", 0)
           /\ efiInstall
                => \E i \in 1..Len(cmds) :
                      cmds[i] = Mount(stateFile.esp, "/mnt/boot/efi", 0)

\* C13: after a run that ended without installComplete, no mount-state
\* file exists (the file of an earlier run was deleted at the start)
C13_StaleStateRemoved ==
    (fnCall.fn = "run" /\ pc = "done" /\ ~completed) => ~stateFile.exists


\* C14: a run of the orchestrator emits no terminal notification before it
\* ends and exactly one (errorOccurred or installComplete) when it ends; the
\* notification comes after every command of the run, and once the run has
\* ended no command is issued and no notification is emitted
C14_OneTerminalSignal ==
    /\ [](fnCall.fn = "run"
            => /\ pc # "done" => signals = <<>>
               /\ pc = "done"
                    => /\ Len(signals) = 1
                       /\ signals[1].sig \in {"errorOccurred", "installComplete"}
                       /\ signals[1].at = Len(cmds))
    /\ [][pc = "done" => UNCHANGED <<cmds, signals, pc>>]_vars

C14_Witness ==
    /\ fnCall.fn = "run" /\ pc = "done"
    /\ signals[1].sig = "errorOccurred"
    /\ \E i \in 1..Len(cmds) : cmds[i].cmd \in Mutations


AfterAbort == Mutations \cup {"mkfs.fat", "mkfs.ext4", "mount"}

failedMutationAt(i) == cmds[i].cmd \in Mutations /\ cmds[i].rc # 0

\* C15: in a run, a partition-table mutation command (mklabel, mkpart, rm,
\* set, name) that exits non-zero is followed by no mutation, format or
\* mount command; the run does not emit installComplete and ends with
\* errorOccurred
C15_FailedMutationAborts ==
    \A i \in 1..Len(cmds) :
        (fnCall.fn = "run" /\ failedMutationAt(i))
            => /\ \A j \in (i + 1)..Len(cmds) : cmds[j].cmd \notin AfterAbort
               /\ ~completed
               /\ pc = "done"
               /\ signals[Len(signals)].sig = "errorOccurred"


rootMountFailedAt(i) ==
    cmds[i].cmd = "mount" /\ cmds[i].path = "/mnt" /\ cmds[i].rc # 0

\* C16: in a run, when the mount of the root partition at /mnt exits
\* non-zero, the run ends with errorOccurred: no ESP is mounted afterwards,
\* the mount state is not written and installComplete is not emitted
C16_RootMountFailureAborts ==
    \A i \in 1..Len(cmds) :
        (fnCall.fn = "run" /\ rootMountFailedAt(i))
            => /\ \A j \in (i + 1)..Len(cmds) : cmds[j].cmd # "mount"
               /\ ~stateFile.exists
               /\ ~completed
               /\ signals[Len(signals)].sig = "errorOccurred"

espMountFailed(node) ==
    \E i \in 1..Len(cmds) : cmds[i] = Mount(node, "/mnt/boot/efi", 1)

\* C17: in an EFI run in UsePartition or UseFreeSpace that reuses an
\* existing ESP, when the mount of that ESP at /mnt/boot/efi exits
\* non-zero, the run emits errorOccurred and not installComplete
C17_ReusedEspMountFailureAborts ==
    (/\ fnCall.fn = "run" /\ efiInstall
     /\ mode \in {"UsePartition", "UseFreeSpace"}
     /\ loc.reuseEsp
     /\ espMountFailed(loc.espPart))
        => /\ ~completed
           /\ signals[Len(signals)].sig = "errorOccurred"


isEspMount(c) == c.cmd = "mount" /\ c.path = "/mnt/boot/efi"

\* C18: in a run, every mount of an ESP at /mnt/boot/efi comes after a
\* mount of the root partition at /mnt, and the directory /mnt/boot/efi is
\* created between the two
C18_RootMountedBeforeEsp ==
    \A j \in 1..Len(cmds) :
        (fnCall.fn = "run" /\ isEspMount(cmds[j]))
            => \E i, k \in 1..Len(cmds) :
                  /\ i < k /\ k < j
                  /\ cmds[i].cmd = "mount" /\ cmds[i].path = "/mnt"
                  /\ cmds[k] = Mkdir("/mnt/boot/efi")

C18_Witness ==
    /\ fnCall.fn = "run" /\ mode = "WipeDrive" /\ completed
    /\ \E j \in 1..Len(cmds) : isEspMount(cmds[j]) /\ cmds[j].rc = 0


isChildOf(part, drive) ==
    \E n \in 1..MaxPartNum : part = Dev(KernelPartName(drive, n))

TableChanging == {"rm", "mkpart", "mkfs.fat", "mkfs.ext4"}

\* C19: a UsePartition run whose target partition is not a child of the
\* selected disk is rejected at its first step: it ends with errorOccurred
\* and issues no delete, create or format command
C19_ForeignTargetRejected ==
    (/\ fnCall.fn = "run" /\ mode = "UsePartition"
     /\ ~isChildOf(targetPartition, selectedDrive))
        => /\ \A i \in 1..Len(cmds) : cmds[i].cmd \notin TableChanging
           /\ ~completed
           /\ pc \in {"idle", "part_begin", "done"}
           /\ pc = "done" => signals[Len(signals)].sig = "errorOccurred"


inRun(w) == w.st \in {"running", "mutating"}

\* C20: of the worker threads the wizard has started, no two whose runs
\* overlap operate on the same disk, and no two have a partition-table
\* mutation command in flight on the same disk at the same time
C20_OneRunPerDisk ==
    \A i, j \in DOMAIN wiz.workers :
        (i # j /\ wiz.workers[i].drive = wiz.workers[j].drive)
            => /\ ~(inRun(wiz.workers[i]) /\ inRun(wiz.workers[j]))
               /\ ~(/\ wiz.workers[i].st = "mutating"
                    /\ wiz.workers[j].st = "mutating")


StagingUnmounts ==
    <<Umount("-Rl", "/mnt/boot/efi"), Umount("-Rl", "/mnt/boot"),
      Umount("-Rl", "/mnt")>>

\* C21: a run or a detach that has issued any command issued the three
\* staging unmounts first (/mnt/boot/efi, /mnt/boot, /mnt, in that order),
\* so before any partition-table mutation; when the target is the system
\* disk, the first step issues nothing besides them but one udevadm settle
C21_StagingUnmountsFirst ==
    /\ [](cmds # <<>>
            => /\ Len(cmds) >= 3
               /\ SubSeq(cmds, 1, 3) = StagingUnmounts)
    /\ [][(pc = "idle" /\ isSystemDisk(devPath))
            => \/ cmds' = <<>>
               \/ cmds' = StagingUnmounts \o <<UdevadmSettle>>]_vars

C21_Witness ==
    /\ fnCall.fn = "run" /\ isSystemDisk(devPath) /\ efiInstall
    /\ mode = "UseFreeSpace"
    /\ Len(cmds) > 4
    /\ SubSeq(cmds, 1, 4) = StagingUnmounts \o <<UdevadmSettle>>
    /\ \E i \in 5..Len(cmds) : cmds[i].cmd \in Mutations


\* positions of run() at which the device topology or the partition table
\* has just been read (a snapshot of the children) or is read next
ReadPcs ==
    DetectPcs \cup {"wipe_detect", "part_after_rm", "free_esp", "free_root",
                    "part_esp", "part_bios", "part_root"}

\* the last partition-table mutation of cs is followed by partprobe,
\* udevadm settle and the sleep
settledAfterLastMutation(cs) ==
    \A m \in 1..Len(cs) :
        (cs[m].cmd \in Mutations
           /\ \A n \in (m + 1)..Len(cs) : cs[n].cmd \notin Mutations)
            => \E i, j, k \in (m + 1)..Len(cs) :
                  /\ i < j /\ j < k
                  /\ cs[i].cmd = "partprobe"
                  /\ cs[j] = UdevadmSettle
                  /\ cs[k] = Sleep1

\* C22: whenever a run reads the device topology or the partition table,
\* the last partition-table mutation command issued before that read has
\* been followed by a settle step (partprobe, udevadm settle, sleep)
C22_SettleBeforeRead ==
    (fnCall.fn = "run" /\ pc \in ReadPcs) => settledAfterLastMutation(cmds)


\* what recreateFromSelectedPartition refuses before it touches the disk:
\* geometry that cannot be queried, cannot be parsed or is an empty range,
\* and, in EFI mode, a target that is the existing ESP
targetRefused ==
    LET geo == getPartitionGeometry(targetPartition, selectedDrive)
        b == parseMiBToBounds(geo.startMiB, geo.endMiB, 0, 0)
        existingEsp == findExistingEsp(devPath)
    IN \/ ~geo.ok
       \/ ~b.ok
       \/ /\ efiInstall /\ existingEsp # EmptyStr
          /\ canonicalFilePath(targetPartition) = canonicalFilePath(existingEsp)

\* C23: a UsePartition run whose target's geometry cannot be queried or
\* parsed or is an empty range, or whose target in EFI mode is the existing
\* ESP, ends at that check with errorOccurred: the check itself issues no
\* command and leaves the table as it was, so the run holds no rm, mkpart
\* or mkfs, and the only unmounts it holds are those of the preflight
C23_GeometryCheckedFirst ==
    /\ [][(pc = "part_begin" /\ targetRefused)
            => /\ pc' = "done"
               /\ cmds' = cmds
               /\ table' = table
               /\ Len(signals') = 1
               /\ signals'[1].sig = "errorOccurred"
               /\ \A i \in 1..Len(cmds') :
                     cmds'[i].cmd \notin TableChanging]_vars
    /\ [][(pc = "idle" /\ fnCall.fn = "run")
            => \A i \in 1..Len(cmds') :
                  cmds'[i].cmd \in {"umount", "udevadm settle"}]_vars

\* C23 as stated: a UsePartition run that ended at the geometry or ESP
\* check has issued no unmount of the target and no rm, mkpart or mkfs
RefusedMsgs ==
    {"Could not query selected partition geometry (parted).",
     "Invalid geometry for selected partition.",
     "Selected partition is the EFI System Partition. Please choose a different partition for root."}

C23_NoUnmountOfRefusedTarget ==
    (/\ fnCall.fn = "run" /\ mode = "UsePartition" /\ pc = "done"
     /\ signals[1].sig = "errorOccurred" /\ signals[1].msg \in RefusedMsgs)
        => \A i \in 1..Len(cmds) :
              /\ cmds[i] # UmountNode(targetPartition)
              /\ cmds[i].cmd \notin TableChanging

C23_Witness ==
    /\ mode = "UsePartition" /\ pc = "done"
    /\ Len(signals) = 1
    /\ signals[1] =
         errorOccurred("Invalid geometry for selected partition.", Len(cmds))
    /\ \E i \in 1..Len(cmds) : cmds[i] = UmountNode(targetPartition)
    /\ \A i \in 1..Len(cmds) : cmds[i].cmd \notin TableChanging


EspSizeMiB == 512

BiosGrubSizeMiB == 2

TooSmallMsgs ==
    {"Selected partition is too small to host bios_grub and root partitions."}

bootReusable ==
    IF efiInstall THEN findExistingEsp(devPath) # EmptyStr
    ELSE findExistingBiosGrub(devPath) # EmptyStr

regionTooSmall ==
    loc.endMiB - loc.startMiB
        < (IF efiInstall THEN EspSizeMiB ELSE BiosGrubSizeMiB) + 1

\* C24: in UsePartition, when the target has been deleted, no boot
\* partition can be reused and the freed region is smaller than the boot
\* partition plus 1 MiB, the run ends there with the too-small error and
\* issues no further command, so no boot and no root partition is created
C24_TooSmallRegionRefused ==
    [][(pc = "part_after_rm" /\ ~bootReusable /\ regionTooSmall)
          => /\ pc' = "done"
             /\ cmds' = cmds
             /\ signals'[Len(signals')].sig = "errorOccurred"
             /\ signals'[Len(signals')].msg \in TooSmallMsgs]_vars


endedTooSmall ==
    /\ fnCall.fn = "run" /\ mode = "UsePartition" /\ pc = "done"
    /\ signals[1].sig = "errorOccurred" /\ signals[1].msg \in TooSmallMsgs

\* C25: when a UsePartition run has ended with the too-small error, the
\* selected partition has not been deleted: no rm has succeeded and the
\* table still holds the partition with the target's number
C25_TooSmallBeforeDelete ==
    endedTooSmall
        => /\ \A i \in 1..Len(cmds) : ~(cmds[i].cmd = "rm" /\ cmds[i].rc = 0)
           /\ StrToNat(partitionNumberFromPath(targetPartition))
                 \in Nums(table[selectedDrive])


\* the end of the region the root partition is made in, in hundredths of a
\* MiB: the size of the disk, or the end of the freed or chosen extent as
\* the run computed it
regionEnd ==
    IF mode = "WipeDrive" THEN DiskEnd ELSE Scale * loc.endMiB

\* C26: in every strategy and boot mode, the mkpart that creates the root
\* partition (ext4) ends exactly 1 MiB before the end of its region
C26_RootEndsOneMiBShort ==
    \A i \in 1..Len(cmds) :
        (fnCall.fn = "run" /\ cmds[i].cmd = "mkpart" /\ cmds[i].fs = "ext4")
            => /\ cmds[i].end.unit = "MiB"
               /\ Scale * cmds[i].end.n = regionEnd - Scale


hasBiosGrub(tbl) == \E p \in tbl : "bios_grub" \in p.flags

\* C27: a completed BIOS run, whatever its strategy, leaves a bios_grub
\* partition on the disk: one it found or one it created and flagged
C27_BiosRunHasBiosGrub ==
    (fnCall.fn = "run" /\ ~efiInstall /\ completed)
        => hasBiosGrub(table[selectedDrive])


\* the free extents of the selected disk with end > start, and the one of
\* them with the largest size, the first such on ties
freeRows == {x \in FreeExtents(table[selectedDrive]) : x.end > x.start}

largestRow ==
    CHOOSE x \in freeRows :
        \A y \in freeRows :
            \/ y.end - y.start < x.end - x.start
            \/ y.end - y.start = x.end - x.start /\ x.start <= y.start

\* C28: a UseFreeSpace run without an explicit extent chooses the largest
\* free row of the table print: unless it stops at a later check, it goes
\* on with that row's bounds; when there is no free row it ends with
\* 'No suitable free space found.' without issuing a command
C28_LargestFreeExtentChosen ==
    [][(pc = "free_begin" /\ ~startsWith(targetPartition, FreePrefix))
          => IF freeRows = {}
             THEN /\ pc' = "done" /\ cmds' = cmds
                  /\ signals'[1].msg = "No suitable free space found."
             ELSE /\ signals' # <<>>
                      => signals'[1].msg # "No suitable free space found."
                  /\ pc' # "done"
                      => /\ loc'.startMiB = miB(largestRow.start)
                         /\ loc'.endMiB = miB(largestRow.end)]_vars


MinFreeMiB == 10

\* the explicit extents a request can name whose end is not more than
\* MinFreeMiB past their start
smallPicks ==
    {x \in FreePicks(table[selectedDrive]) :
        x.start > 0 /\ x.end <= x.start + Scale * MinFreeMiB}

\* C29: a UseFreeSpace run on an explicit extent with end <= start + 10 MiB
\* ends at the size check with 'Selected free space is too small.' and has
\* issued no mkpart, mkfs or mount command
C29_SmallExtentRejected ==
    /\ [][(pc = "free_begin"
            /\ \E x \in smallPicks : targetPartition = FreeToken(x.start, x.end))
            => /\ pc' = "done"
               /\ cmds' = cmds
               /\ signals' = <<errorOccurred("Selected free space is too small.",
                                             Len(cmds))>>]_vars
    /\ [](pc = "free_begin"
            => \A i \in 1..Len(cmds) :
                  cmds[i].cmd \notin {"mkpart", "mkfs.fat", "mkfs.ext4", "mount"})

C29_Witness ==
    /\ mode = "UseFreeSpace" /\ pc = "done"
    /\ startsWith(targetPartition, FreePrefix)
    /\ Len(signals) = 1
    /\ signals[1].msg = "Selected free space is too small."


\* C30: in a UseFreeSpace run in EFI mode that has to carve a new ESP from
\* an extent smaller than 512 MiB plus a root of one MiB (the least root
\* minimum there can be), no mkpart succeeds (no ESP and no root is
\* created) and the run ends with errorOccurred
C30_EfiExtentHoldsEspAndRoot ==
    (/\ fnCall.fn = "run" /\ mode = "UseFreeSpace" /\ efiInstall
     /\ pc \notin {"idle", "free_begin"}
     /\ ~loc.reuseEsp
     /\ loc.endMiB - loc.startMiB < EspSizeMiB + 1)
        => /\ \A i \in 1..Len(cmds) :
                 ~(cmds[i].cmd = "mkpart" /\ cmds[i].rc = 0)
           /\ pc = "done" => signals[1].sig = "errorOccurred"


\* the extent an explicit request names, as the token's two decimal fields
\* read it, in hundredths of a MiB
selExtent ==
    LET t == split(targetPartition, ":")
    IN [start |-> toDouble(t[2]).val, end |-> toDouble(t[3]).val]

explicitRun ==
    /\ fnCall.fn = "run" /\ mode = "UseFreeSpace"
    /\ startsWith(targetPartition, FreePrefix)

\* C31: in a UseFreeSpace run on an explicit extent [s, e] the first mkpart
\* starts at exactly s, the mkpart of the root partition (ext4) ends at
\* exactly e - 1 MiB, and no mkpart has a start below s or an end above e
C31_ExplicitExtentVerbatim ==
    explicitRun =>
        LET mk == SelectSeq(cmds, LAMBDA c : c.cmd = "mkpart")
        IN /\ mk # <<>> => Scale * mk[1].start.n = selExtent.start
           /\ \A i \in 1..Len(mk) :
                 /\ mk[i].fs = "ext4"
                       => Scale * mk[i].end.n = selExtent.end - Scale
                 /\ Scale * mk[i].start.n >= selExtent.start
                 /\ Scale * mk[i].end.n <= selExtent.end


\* C33: parseMiBToBounds succeeds if and only if both texts parse as
\* decimals (MiB suffix removed, ',' read as '.') and
\* max(1, ceil(start)) < floor(end); it fails when a text does not parse
\* and when the rounded range is empty, also for a range that is not empty
\* before rounding but holds no whole MiB
C33_SuccessIffRoundedRangeNonEmpty ==
    Applied("parseMiBToBounds") =>
        (fnRet.v.ok <=>
            /\ fnCall.startStr.valid /\ fnCall.endStr.valid
            /\ ExpectedStart < FloorMiB(fnCall.endStr.val))

C33_Witness ==
    /\ Applied("parseMiBToBounds")
    /\ fnCall.startStr.str = <<"1", ",", "5">> \o MiBSuffix
    /\ fnCall.endStr.str = <<"1", ".", "9", "9">>
    /\ ~fnRet.v.ok


\* the partition of the selected disk a node names, if the table holds one
partsAt(node) ==
    {p \in table[selectedDrive] :
        node = Dev(KernelPartName(selectedDrive, p.num))}

isMkfs(c) == c.cmd \in {"mkfs.fat", "mkfs.ext4"}

\* C32: in UsePartition and UseFreeSpace every mkfs.fat and mkfs.ext4 is
\* issued on a partition made during the run, one that holds no filesystem
\* yet, so that no ESP and no other partition that was there before is
\* formatted again; and a UseFreeSpace run in EFI mode that finds an ESP
\* which is not FAT ends with an error before it creates a partition
C32_ExistingEspNeverReformatted ==
    /\ [][(fnCall.fn = "run" /\ mode \in {"UsePartition", "UseFreeSpace"})
            => \A i \in (Len(cmds) + 1)..Len(cmds') :
                  isMkfs(cmds'[i])
                     => /\ partsAt(cmds'[i].node) # {}
                        /\ \A p \in partsAt(cmds'[i].node) : p.fs = ""]_vars
    /\ [][(/\ pc = "free_begin" /\ efiInstall
           /\ findExistingEsp(devPath) # EmptyStr
           /\ ~isPartitionVfat(findExistingEsp(devPath))
           /\ pc' # "free_begin")
            => /\ pc' = "done" /\ cmds' = cmds
               /\ signals'[1].sig = "errorOccurred"
               /\ \A i \in 1..Len(cmds) : cmds[i].cmd # "mkpart"]_vars


\* the first row lsblk prints for a node: its name, its type and, when it
\* has one, its parent's kernel name
nodeRow(path) == Head(LsblkDev(path))

parentOf(path) ==
    IF Len(nodeRow(path)) >= 3 THEN nodeRow(path)[3] ELSE EmptyStr

isDiskNode(path) == LsblkDev(path) # <<>> /\ nodeRow(path)[2] = T_disk

\* C34: resolveBaseDisk makes at most 6 lsblk queries whatever the parent
\* names are, cyclic and self-referencing ones included; a result that is
\* not empty is "/dev/" + the name of a node of type disk reached from the
\* input by following parent names; the result is empty for an input not
\* under /dev/, for an input lsblk prints nothing for, for a node without
\* a parent that is not a disk, and when none of the nodes asked about is
\* a disk
C34_ResolveBaseDisk ==
    Applied("resolveBaseDisk") =>
        LET dev == fnCall.devOrMapper
            r == fnRet.v.disk
            q == fnRet.v.queries
            underDev == startsWith(dev, DevPrefix)
        IN /\ Len(q) <= MaxHops
           /\ r # EmptyStr =>
                 /\ q # <<>> /\ q[1] = dev
                 /\ \A i \in 1..(Len(q) - 1) : q[i + 1] = Dev(parentOf(q[i]))
                 /\ isDiskNode(q[Len(q)])
                 /\ r = Dev(nodeRow(q[Len(q)])[1])
           /\ ~underDev => r = EmptyStr /\ q = <<>>
           /\ (underDev /\ LsblkDev(dev) = <<>>) => r = EmptyStr /\ q = <<dev>>
           /\ (/\ underDev /\ LsblkDev(dev) # <<>>
               /\ ~isDiskNode(dev) /\ parentOf(dev) = EmptyStr)
                 => r = EmptyStr
           /\ (\A i \in 1..Len(q) : ~isDiskNode(q[i])) => r = EmptyStr

C34_Witness ==
    /\ Applied("resolveBaseDisk")
    /\ sys.layers = CycleLayers
    /\ fnCall.devOrMapper = Dev(dm0)
    /\ Len(fnRet.v.queries) = MaxHops
    /\ fnRet.v.disk = EmptyStr


isTableMutation(c) == c.cmd \in {"mklabel", "rm", "mkpart", "name", "set"}

\* the steps of a run that issue a command the run depends on: the start
\* of the run (Detaching), the steps that issue mklabel or mkpart
\* (Partitioning), the steps that issue mkfs (Formatting) and the steps
\* that mount (Mounting)
FailingExitPcs ==
    {"idle", "wipe_mklabel", "wipe_first", "wipe_root", "free_esp",
     "free_root", "part_esp", "part_bios", "part_root",
     "wipe_mkfs_esp", "wipe_mkfs_root", "free_mkfs_esp", "free_mkfs_root",
     "part_mkfs_esp", "part_mkfs_root",
     "wipe_mount", "free_mount", "part_mount"}

\* the run can end with errorOccurred in its next step
CanFailNow ==
    ENABLED (/\ Next
             /\ pc' = "done"
             /\ Len(signals') = Len(signals) + 1
             /\ signals'[Len(signals')].sig = "errorOccurred")

\* C35: the commands of a run follow the order Detaching, Partitioning,
\* Formatting, Mounting: no mklabel, rm, mkpart, name or set comes after a
\* mkfs, no mkfs comes after a mount, installComplete is emitted only after
\* a mount and as the last thing the run does, and in each of the four
\* phases, whatever the strategy, the run can still end with errorOccurred
C35_PhaseOrder ==
    fnCall.fn = "run" =>
        /\ \A i, j \in 1..Len(cmds) :
              (i < j /\ isMkfs(cmds[i])) => ~isTableMutation(cmds[j])
        /\ \A i, j \in 1..Len(cmds) :
              (i < j /\ cmds[i].cmd = "mount") => ~isMkfs(cmds[j])
        /\ \A k \in 1..Len(signals) :
              signals[k].sig = "installComplete"
                 => /\ pc = "done" /\ signals[k].at = Len(cmds)
                    /\ \E i \in 1..Len(cmds) : cmds[i].cmd = "mount"
                    /\ \E i \in 1..Len(cmds) : isMkfs(cmds[i])
        /\ pc \in FailingExitPcs => CanFailNow


\* the nodes of the partitions of the target disk the kernel lists
targetNodes == {Dev(k) : k \in childPartitionsSet(devPath)}

\* C36: a WipeDrive run on a disk that is not the system disk issues
\* mklabel only after the full detach sequence: swapoff of every active
\* swap partition of the disk, cryptsetup close of every LUKS mapping on
\* it, then fuser -km on the disk, then blockdev --rereadpt and a settle
C36_DetachBeforeMklabel ==
    (/\ fnCall.fn = "run" /\ mode = "WipeDrive"
     /\ pc = "wipe_mklabel" /\ ~isSystemDisk(devPath))
        => /\ \A n \in ProcSwaps \cap targetNodes :
                 \E i \in 1..Len(cmds) : cmds[i] = Swapoff(n)
           /\ \A x \in sys.layers :
                 (x.type = T_crypt /\ Dev(x.pk) \in targetNodes)
                    => \E i \in 1..Len(cmds) :
                          cmds[i] = CryptsetupClose(Dev(x.name))
           /\ \E i, j, k \in 1..Len(cmds) :
                 /\ i < j /\ j < k
                 /\ cmds[i] = FuserKill(devPath)
                 /\ cmds[j] = BlockdevReread(devPath)
                 /\ cmds[k] = UdevadmSettle


\* C37: every worker thread started by the wizard eventually quits and its
\* worker object is released once run() has returned, with installComplete
\* or with errorOccurred
C37_WorkerThreadReleased ==
    \A i \in 1..MaxWorkers :
        (i \in DOMAIN wiz.workers
           /\ wiz.workers[i].st \in {"complete", "failed"})
        ~> (i \in DOMAIN wiz.workers /\ wiz.workers[i].st = "released")


\* the nodes a run has used as ESP and as root: formatted or mounted
espNodes ==
    {cmds[i].node : i \in {j \in 1..Len(cmds) :
        \/ cmds[j].cmd = "mkfs.fat"
        \/ cmds[j].cmd = "mount" /\ cmds[j].path = "/mnt/boot/efi"}}

rootNodes ==
    {cmds[i].node : i \in {j \in 1..Len(cmds) :
        \/ cmds[j].cmd = "mkfs.ext4"
        \/ cmds[j].cmd = "mount" /\ cmds[j].path = "/mnt"}}

isPartitionNodeOf(node, disk) ==
    \E n \in 1..(MaxParts + 2) : node = Dev(KernelPartName(disk, n))

\* C38: in an EFI run, in every strategy, the node formatted or mounted as
\* ESP and the node formatted or mounted as root are two different
\* partition nodes of the target disk, and neither is the node of the
\* whole disk
C38_EspAndRootDistinctPartitions ==
    (fnCall.fn = "run" /\ efiInstall) =>
        /\ \A e \in espNodes : \A r \in rootNodes : e # r
        /\ \A n \in espNodes \cup rootNodes :
              n # devPath /\ isPartitionNodeOf(n, selectedDrive)


\* C39: every mkpart of a UsePartition or UseFreeSpace run has start < end
\* and lies inside the region the run works in, start not below the start
\* of the region and end not above its end minus 1 MiB; where a boot
\* partition is carved before the root partition, the root partition
\* starts where the boot partition ends
C39_MkpartInsideRegion ==
    (fnCall.fn = "run" /\ mode \in {"UsePartition", "UseFreeSpace"}) =>
        LET mk == SelectSeq(cmds, LAMBDA c : c.cmd = "mkpart")
        IN /\ \A i \in 1..Len(mk) :
                 /\ mk[i].start.n < mk[i].end.n
                 /\ loc.startMiB <= mk[i].start.n
                 /\ mk[i].end.n <= loc.endMiB - 1
           /\ Len(mk) = 2 => mk[1].end.n = mk[2].start.n


\* the workers a step has started
startedNow ==
    {wiz'.workers[i] : i \in (Len(wiz.workers) + 1)..Len(wiz'.workers)}

\* C40: a click starts a worker in WipeDrive or UsePartition mode only
\* when the confirmation dialog of that click was answered Yes; when it was
\* answered No the click starts no worker and no command is issued, on
\* both buttons and for every selection of the install mode
C40_NoDestructiveRunWithoutYes ==
    [][/\ (\E w \in startedNow : w.mode \in {"WipeDrive", "UsePartition"})
            => wiz'.dialog = "Yes"
       /\ (wiz'.dialog = "No"
           /\ (ClickPrepareButton \/ ClickCreatePartButton))
            => /\ wiz'.workers = wiz.workers
               /\ cmds' = cmds]_vars

C40_Witness ==
    /\ wiz.dialog = "No" /\ wiz.efiInstall
    /\ wiz.workers = <<>>

====
